---- MODULE Spec2Model ----
(***************************************************************************)
(* TesseractAPI (src/api.rs): one native engine object behind a handle     *)
(* mutex, a TesseractConfiguration behind a config mutex, and the          *)
(* operations that drive them: new, init, set_variable, end, init_2,       *)
(* recognize, clone and drop.  Strings are byte sequences, so that         *)
(* is_empty, == and CString::new are computed as the code computes them.   *)
(* The native engine is an external collaborator: its functions are        *)
(* modelled by their C-API contract (status codes, what a successful       *)
(* initialisation records, which parameters SetVariable knows).            *)
(***************************************************************************)
EXTENDS Integers, Sequences, FiniteSets, TLC

VARIABLES
  alive,      \* manager -> "none" | "live" | "dropped"
  handle,     \* manager -> native object held in TesseractAPI.handle, or NULL
  cfg,        \* manager -> TesseractConfiguration
  hOwner,     \* manager -> thread holding the handle mutex, or NoThread
  cOwner,     \* manager -> thread holding the config mutex, or NoThread
  hPoison,    \* manager -> the handle mutex is poisoned
  cPoison,    \* manager -> the config mutex is poisoned
  nat,        \* native object -> its state inside the engine
  pc,         \* thread -> the call it is executing and where it is in it
  last,       \* the most recently completed call (history)
  lastSet,    \* manager -> name -> value of the latest set_variable call (history)
  ops,        \* number of calls started so far
  nullDeref,  \* a native function was handed a null handle (history)
  aborted,    \* the process has aborted (panic while unwinding, or a crash)
  heap,       \* the buffers and cursors the engine has handed out, in order
  out,        \* the value the most recently completed call returned
  nullPtr,    \* the engine handed the most recently completed call a null pointer
  image,      \* the buffer and dimensions the caller hands to set_image
  build       \* whether the build checks integer overflow or wraps

vars == <<alive, handle, cfg, hOwner, cOwner, hPoison, cPoison, nat, pc, last,
          lastSet, ops, nullDeref, aborted, heap, out, nullPtr, image, build>>

\* What the calls on the configuration and the engine's session leave alone.
aux == <<heap, out, nullPtr, image, build>>

----------------------------------------------------------------------------
(* Bounds of the model *)

MaxOps == 3

Threads == {1, 2}
SeqThreads == {1}
NoThread == 0

Mgrs == {1, 2}
Objects == {1, 2}
NULL == 0

----------------------------------------------------------------------------
(* Strings: sequences of bytes *)

NUL == 0
EmptyStr == << >>

\* No image: what the caller holds before it has one.
NoImage == <<0, 0, 0, 0, 0>>
PathP == <<112>>
PathNul == <<112, 0, 113>>
LangEng == <<101>>
LangFra == <<102>>
NameK == <<107>>
NameX == <<120>>
NameNul == <<107, 0>>
Val1 == <<49>>
Val2 == <<50>>
DefaultValue == <<100>>

Paths == {EmptyStr, PathP, PathNul}
Langs == {LangEng, LangFra}
Names == {NameK, NameX, NameNul}
Values == {Val1, Val2}

\* The parameters the engine knows; TessBaseAPISetVariable rejects any other name.
KnownParams == {NameK}

\* CString::new(s): Err when s holds an interior NUL byte.
CStringNewFails(s) == \E i \in 1..Len(s) : s[i] = NUL

----------------------------------------------------------------------------
(* TesseractConfiguration *)

EmptyVars == [n \in {} |-> EmptyStr]

NewConfiguration == [datapath |-> EmptyStr, language |-> EmptyStr, variables |-> EmptyVars]

\* HashMap::insert
InsertIfAbsent(map, name, value) ==
  [n \in (DOMAIN map) \cup {name} |-> IF n \in DOMAIN map THEN map[n] ELSE value]

Insert(map, name, value) ==
  [n \in (DOMAIN map) \cup {name} |-> IF n = name THEN value ELSE map[n]]

\* config_guard.datapath.clear(); config_guard.language.clear()
ClearDatapathOnly(c) == [c EXCEPT !.datapath = EmptyStr]

ClearConfiguration(c) == [c EXCEPT !.datapath = EmptyStr, !.language = EmptyStr]

----------------------------------------------------------------------------
(* The native engine *)

NoInit == << >>
DefaultVars == [n \in KnownParams |-> DefaultValue]

Unallocated == [st |-> "unalloc", inited |-> NoInit, vars |-> DefaultVars, dels |-> 0]

\* TessBaseAPICreate: a fresh engine object
Created == [st |-> "created", inited |-> NoInit, vars |-> DefaultVars, dels |-> 0]

\* TessBaseAPIEnd: closes the session; the object stays allocated.
TessBaseAPIEnd(o, reset) ==
  [o EXCEPT !.st = "ended", !.vars = IF reset THEN DefaultVars ELSE @]

\* TessBaseAPIDelete
TessBaseAPIDelete(o) == [o EXCEPT !.st = "deleted", !.dels = @ + 1]

\* TessBaseAPIInit3: ret = 0 is success.  A successful initialisation records
\* its (datapath, language); an initialisation can reset the variables (line 112).
TessBaseAPIInit3(o, p, l, ret, reset) ==
  IF ret = 0
  THEN [o EXCEPT !.st = "initialized", !.inited = <<p, l>>,
                 !.vars = IF reset THEN DefaultVars ELSE @]
  ELSE [o EXCEPT !.st = "failed", !.vars = IF reset THEN DefaultVars ELSE @]

\* TessBaseAPIInit2: as TessBaseAPIInit3, with an engine mode.
TessBaseAPIInit2(o, p, l, ret, reset) == TessBaseAPIInit3(o, p, l, ret, reset)

\* TessBaseAPISetVariable: 1 when the engine knows the parameter, else 0.
TessBaseAPISetVariableRet(name) == IF name \in KnownParams THEN 1 ELSE 0

TessBaseAPISetVariable(o, name, value) ==
  IF name \in KnownParams THEN [o EXCEPT !.vars[name] = value] ELSE o

InitRets == {0, -1}
UBOutcomes == {"crash", "return"}

----------------------------------------------------------------------------
(* Calls in progress *)

Idle == [op |-> "idle", stage |-> "idle", m |-> 1, a1 |-> EmptyStr, a2 |-> EmptyStr,
         snap |-> NewConfiguration, calls |-> << >>]

InProgress(m) == \E t \in Threads : pc[t].op # "idle" /\ pc[t].m = m

\* The thread is between the start and the end of its native calls on m's object.
InNative(t, m) == pc[t].stage \in {"native", "cursors"} /\ pc[t].m = m

FirstStage(op) == IF op \in {"init", "set_variable", "clone"} THEN "config" ELSE "handle"

Done(t, m, res, calls, ninit, nm) ==
  [seq |-> ops, t |-> t, m |-> m, op |-> pc[t].op, a1 |-> pc[t].a1, a2 |-> pc[t].a2,
   res |-> res, calls |-> calls, ninit |-> ninit, nm |-> nm]

----------------------------------------------------------------------------
(* The operations, as functions of the configuration and the native object *)

\* The orders in which a HashMap with these keys can be iterated.
Orders(S) == {s \in [1..Cardinality(S) -> S] : \A i, j \in 1..Cardinality(S) : i # j => s[i] # s[j]}

\* fn set_variable_internal(&self, name, value, handle) (lines 196-205)
set_variable_internal(name, value, o) ==
  IF CStringNewFails(name) \/ CStringNewFails(value)
  THEN [res |-> "Panic", no |-> o, calls |-> << >>]
  ELSE [res |-> IF TessBaseAPISetVariableRet(name) # 1 THEN "SetVariableError" ELSE "Ok",
        no |-> TessBaseAPISetVariable(o, name, value),
        calls |-> <<"SetVariable">>]

\* for (name, value) in &variables_to_apply { self.set_variable_internal(..)?; }
RECURSIVE apply_variables(_, _, _, _, _)
apply_variables(variables, order, i, o, calls) ==
  IF i > Len(order)
  THEN [res |-> "Ok", no |-> o, calls |-> calls]
  ELSE LET r == set_variable_internal(order[i], variables[order[i]], o)
       IN IF r.res # "Ok"
          THEN [res |-> r.res, no |-> r.no, calls |-> calls \o r.calls]
          ELSE apply_variables(variables, order, i + 1, r.no, calls \o r.calls)

\* let was_initialized = !config_guard.datapath.is_empty() (line 87)
was_initialized(c) == c.datapath # EmptyStr

\* let config_changed = was_initialized && (.. != .. || .. != ..) (lines 88-89)
changed_whenever_initialized(c, p, l) == was_initialized(c)

config_changed(c, p, l) == was_initialized(c) /\ (c.datapath # p \/ c.language # l)

\* The head of init (lines 86-98): TessBaseAPIEnd when the configuration has
\* changed, then the new datapath and language are written to the snapshot.
init_begin_locked(c, o, p, l, reset) ==
  [cfg |-> [c EXCEPT !.datapath = p, !.language = l],
   no |-> IF config_changed(c, p, l) THEN TessBaseAPIEnd(o, reset) ELSE o,
   calls |-> IF config_changed(c, p, l) THEN <<"End">> ELSE << >>]

\* The conversion of the arguments and the native initialiser (lines 100-110),
\* on what the head of init left; ninit = "ok" when init goes on to the replay.
init_native_locked(c1, o1, calls1, p, l, ret, reset) ==
  IF CStringNewFails(p) \/ CStringNewFails(l)
  THEN [cfg |-> c1, no |-> o1, res |-> "Panic", calls |-> calls1, ninit |-> "none"]
  ELSE IF ret # 0
  THEN [cfg |-> ClearConfiguration(c1), no |-> TessBaseAPIInit3(o1, p, l, ret, reset),
        res |-> "InitError", calls |-> calls1 \o <<"Init3">>, ninit |-> "fail"]
  ELSE [cfg |-> c1, no |-> TessBaseAPIInit3(o1, p, l, ret, reset), res |-> "Ok",
        calls |-> calls1 \o <<"Init3">>, ninit |-> "ok"]

\* The replay of the stored variables (lines 115-121).
init_replay_locked(c1, o2, calls2, order) ==
  LET r == apply_variables(c1.variables, order, 1, o2, calls2)
  IN [cfg |-> c1, no |-> r.no, res |-> r.res, calls |-> r.calls, ninit |-> "ok"]

\* The body of init, run with both locks held (lines 86-122).
init_unless_unchanged(c, o, p, l, ret, reset, order) ==
  IF was_initialized(c) /\ c.datapath = p /\ c.language = l
  THEN [cfg |-> c, no |-> o, res |-> "Ok", calls |-> << >>, ninit |-> "none"]
  ELSE LET b == init_begin_locked(c, o, p, l, reset)
           n == init_native_locked(b.cfg, b.no, b.calls, p, l, ret, reset)
       IN IF n.ninit = "ok" THEN init_replay_locked(n.cfg, n.no, n.calls, order) ELSE n

init_locked(c, o, p, l, ret, reset, order) ==
  LET b == init_begin_locked(c, o, p, l, reset)
      n == init_native_locked(b.cfg, b.no, b.calls, p, l, ret, reset)
  IN IF n.ninit = "ok" THEN init_replay_locked(n.cfg, n.no, n.calls, order) ELSE n

\* The body of set_variable, run with both locks held (lines 185-191).
set_variable_locked(c, o, name, value) ==
  LET c1 == [c EXCEPT !.variables = Insert(@, name, value)]
      r == set_variable_internal(name, value, o)
  IN [cfg |-> c1, no |-> r.no, res |-> r.res, calls |-> r.calls, ninit |-> "none"]

\* The body of end (line 1026).
end_clearing(c, o, reset) ==
  [cfg |-> ClearConfiguration(c), no |-> TessBaseAPIEnd(o, reset), res |-> "Ok",
   calls |-> <<"End">>, ninit |-> "none"]

end_locked(c, o, reset) ==
  [cfg |-> c, no |-> TessBaseAPIEnd(o, reset), res |-> "Ok", calls |-> <<"End">>,
   ninit |-> "none"]

\* The body of init_2 (lines 1122-1128): the snapshot is not touched.
init_2_locked(c, o, p, l, ret, reset) ==
  [cfg |-> c, no |-> TessBaseAPIInit2(o, p, l, ret, reset),
   res |-> IF ret # 0 THEN "InitError" ELSE "Ok",
   calls |-> <<"Init2">>, ninit |-> IF ret # 0 THEN "fail" ELSE "ok"]

\* The body of recognize (lines 326-331).
recognize_locked(c, o, ret) ==
  [cfg |-> c, no |-> o, res |-> IF ret # 0 THEN "OcrError" ELSE "Ok",
   calls |-> <<"Recognize">>, ninit |-> "none"]

----------------------------------------------------------------------------
(* Construction *)

\* The object TessBaseAPICreate hands out next.
FreshObject == CHOOSE o \in Objects : nat[o].st = "unalloc" /\ \A o2 \in Objects : nat[o2].st = "unalloc" => o <= o2

\* TesseractAPI::new(): the handle is whatever TessBaseAPICreate returned.
InitManagers ==
  /\ \E h \in {1, NULL} :
       /\ handle = [m \in Mgrs |-> IF m = 1 THEN h ELSE NULL]
       /\ nat = [o \in Objects |-> IF o = h THEN Created ELSE Unallocated]
  /\ alive = [m \in Mgrs |-> IF m = 1 THEN "live" ELSE "none"]
  /\ cfg = [m \in Mgrs |-> NewConfiguration]
  /\ hOwner = [m \in Mgrs |-> NoThread]
  /\ cOwner = [m \in Mgrs |-> NoThread]
  /\ hPoison = [m \in Mgrs |-> FALSE]
  /\ cPoison = [m \in Mgrs |-> FALSE]
  /\ pc = [t \in Threads |-> Idle]
  /\ last = [seq |-> 0, t |-> 1, m |-> 1, op |-> "new", a1 |-> EmptyStr, a2 |-> EmptyStr,
             res |-> "Ok", calls |-> <<"Create">>, ninit |-> "none", nm |-> 1]
  /\ lastSet = [m \in Mgrs |-> EmptyVars]
  /\ ops = 0
  /\ nullDeref = FALSE
  /\ aborted = FALSE
  /\ heap = << >>
  /\ out = << >>
  /\ nullPtr = FALSE

Init ==
  /\ InitManagers
  /\ image = NoImage
  /\ build = "checked"

----------------------------------------------------------------------------
(* Steps of a call *)

\* A thread calls an operation of manager m.
call(t, op, m, a1, a2) ==
  /\ ~aborted
  /\ UNCHANGED aux
  /\ ops < MaxOps
  /\ pc[t].op = "idle"
  /\ alive[m] = "live"
  /\ op = "clone" => /\ \E m2 \in Mgrs : alive[m2] = "none"
                     /\ \A t2 \in Threads : pc[t2].op # "clone"
  /\ pc' = [pc EXCEPT ![t] = [op |-> op, stage |-> FirstStage(op), m |-> m, a1 |-> a1,
                              a2 |-> a2, snap |-> NewConfiguration, calls |-> << >>]]
  /\ ops' = ops + 1
  /\ UNCHANGED <<alive, handle, cfg, hOwner, cOwner, hPoison, cPoison, nat, last, lastSet,
                 nullDeref, aborted>>

\* The call returns (or unwinds) without having touched the manager.
return_early(t, res) ==
  /\ last' = Done(t, pc[t].m, res, << >>, "none", 0)
  /\ pc' = [pc EXCEPT ![t] = Idle]
  /\ cOwner' = [cOwner EXCEPT ![pc[t].m] = IF @ = t THEN NoThread ELSE @]
  /\ UNCHANGED <<alive, handle, cfg, hOwner, hPoison, cPoison, nat, lastSet, ops, nullDeref,
                 aborted>>

\* self.config.lock(): blocks while another thread holds the mutex; a poisoned
\* mutex yields Err, which init and set_variable map to MutexLockError and clone
\* unwraps.  clone copies the configuration and lets the guard go at once.
ConfigLockAvailableAlways(m) == TRUE

ConfigLockAvailable(m) == cOwner[m] = NoThread

lock_config(t) ==
  LET m == pc[t].m IN
  /\ ~aborted
  /\ UNCHANGED aux
  /\ pc[t].stage = "config"
  /\ ConfigLockAvailable(m)
  /\ IF cPoison[m]
     THEN return_early(t, IF pc[t].op = "clone" THEN "Panic" ELSE "MutexLockError")
     ELSE IF pc[t].op = "clone"
     THEN /\ pc' = [pc EXCEPT ![t].stage = "build", ![t].snap = cfg[m]]
          /\ UNCHANGED <<alive, handle, cfg, hOwner, cOwner, hPoison, cPoison, nat, last,
                         lastSet, ops, nullDeref, aborted>>
     ELSE /\ cOwner' = [cOwner EXCEPT ![m] = t]
          /\ pc' = [pc EXCEPT ![t].stage = "handle"]
          /\ UNCHANGED <<alive, handle, cfg, hOwner, hPoison, cPoison, nat, last, lastSet,
                         ops, nullDeref, aborted>>

\* self.handle.lock(): blocks while another thread holds the mutex.
HandleLockAvailableAlways(m) == TRUE

HandleLockAvailable(m) == hOwner[m] = NoThread

lock_handle(t) ==
  LET m == pc[t].m IN
  /\ ~aborted
  /\ UNCHANGED aux
  /\ pc[t].stage = "handle"
  /\ HandleLockAvailable(m)
  /\ IF hPoison[m]
     THEN return_early(t, "MutexLockError")
     ELSE /\ hOwner' = [hOwner EXCEPT ![m] = t]
          /\ pc' = [pc EXCEPT ![t].stage = "native"]
          /\ UNCHANGED <<alive, handle, cfg, cOwner, hPoison, cPoison, nat, last, lastSet,
                         ops, nullDeref, aborted>>

\* The native object a manager's handle points to (a placeholder for a null handle).
ObjectOf(m) == IF handle[m] = NULL THEN Created ELSE nat[handle[m]]

\* The locked part of a call has run with outcome r: the guards are dropped (a
\* panic poisons the mutexes they guard) and the call returns.  A native call on
\* a null handle is undefined behaviour: the process crashes or the call returns.
complete(t, r, ub) ==
  LET m == pc[t].m
      h == handle[m]
      usedNull == h = NULL /\ r.calls # << >>
  IN IF usedNull /\ ub = "crash"
     THEN /\ aborted' = TRUE
          /\ nullDeref' = TRUE
          /\ UNCHANGED <<alive, handle, cfg, hOwner, cOwner, hPoison, cPoison, nat, pc, last,
                         ops>>
     ELSE /\ cfg' = [cfg EXCEPT ![m] = r.cfg]
          /\ nat' = IF h = NULL THEN nat ELSE [nat EXCEPT ![h] = r.no]
          /\ hOwner' = [hOwner EXCEPT ![m] = IF @ = t THEN NoThread ELSE @]
          /\ cOwner' = [cOwner EXCEPT ![m] = IF @ = t THEN NoThread ELSE @]
          /\ hPoison' = [hPoison EXCEPT ![m] = @ \/ (r.res = "Panic")]
          /\ cPoison' = [cPoison EXCEPT ![m] = @ \/ (r.res = "Panic" /\ cOwner[m] = t)]
          /\ last' = Done(t, m, r.res, r.calls, r.ninit, 0)
          /\ pc' = [pc EXCEPT ![t] = Idle]
          /\ nullDeref' = (nullDeref \/ usedNull)
          /\ UNCHANGED <<alive, handle, ops, aborted>>

AtBody(t, op) == ~aborted /\ pc[t].op = op /\ pc[t].stage = "native"

init(t) ==
  /\ AtBody(t, "init")
  /\ UNCHANGED aux
  /\ \E ret \in InitRets, reset \in BOOLEAN, ub \in UBOutcomes :
       \E order \in Orders(DOMAIN cfg[pc[t].m].variables) :
         complete(t, init_locked(cfg[pc[t].m], ObjectOf(pc[t].m), pc[t].a1, pc[t].a2,
                                 ret, reset, order), ub)
  /\ UNCHANGED lastSet

set_variable(t) ==
  /\ AtBody(t, "set_variable")
  /\ UNCHANGED aux
  /\ \E ub \in UBOutcomes :
       complete(t, set_variable_locked(cfg[pc[t].m], ObjectOf(pc[t].m), pc[t].a1, pc[t].a2), ub)
  /\ lastSet' = [lastSet EXCEPT ![pc[t].m] = Insert(@, pc[t].a1, pc[t].a2)]

end(t) ==
  /\ AtBody(t, "end")
  /\ UNCHANGED aux
  /\ \E reset \in BOOLEAN, ub \in UBOutcomes :
       complete(t, end_locked(cfg[pc[t].m], ObjectOf(pc[t].m), reset), ub)
  /\ UNCHANGED lastSet

init_2(t) ==
  /\ AtBody(t, "init_2")
  /\ UNCHANGED aux
  /\ \E ret \in InitRets, reset \in BOOLEAN, ub \in UBOutcomes :
       complete(t, init_2_locked(cfg[pc[t].m], ObjectOf(pc[t].m), pc[t].a1, pc[t].a2,
                                 ret, reset), ub)
  /\ UNCHANGED lastSet

recognize(t) ==
  /\ AtBody(t, "recognize")
  /\ UNCHANGED aux
  /\ \E ret \in InitRets, ub \in UBOutcomes :
       complete(t, recognize_locked(cfg[pc[t].m], ObjectOf(pc[t].m), ret), ub)
  /\ UNCHANGED lastSet

----------------------------------------------------------------------------
(* clone and drop *)

FreeManager == CHOOSE m \in Mgrs : alive[m] = "none"

\* impl Drop: end and delete behind the null guard (lines 1479-1482).
drop_locked(o, h, reset) ==
  IF h = NULL THEN o ELSE TessBaseAPIDelete(TessBaseAPIEnd(o, reset))

drop_calls(h) == IF h = NULL THEN << >> ELSE <<"End", "Delete">>

\* The process aborts: a panic while a panic unwinds, or a crash in native code.
abort(t, m, calls) ==
  /\ aborted' = TRUE
  /\ last' = Done(t, m, "Abort", calls, "none", 0)
  /\ pc' = [pc EXCEPT ![t] = Idle]

\* The handle of the clone: that of TesseractAPI::new() (line 1497), never the source's.
clone_handle_shared(m, fresh) == handle[m]

clone_handle(m, fresh) == fresh

\* The configuration a clone of an uninitialised source ends with (line 1497).
clone_uninitialized_config(snap) == NewConfiguration

\* clone after the copy of the source's configuration (lines 1497-1507): a new
\* manager, initialised and given the copied variables when the copy's datapath
\* is not empty; the replay of the variables follows in clone_replay.  The new manager is private to the cloning thread until clone
\* returns.  An `expect` that fails with no guard held unwinds through the drop
\* of the new manager; one that fails with the new manager's guards held poisons
\* them, the drop's own unwrap panics during the unwinding, and the process aborts.
clone(t) ==
  LET m == pc[t].m
      snap == pc[t].snap
      nm == FreeManager
  IN
  /\ ~aborted
  /\ pc[t].op = "clone"
  /\ UNCHANGED aux
  /\ pc[t].stage = "build"
  /\ UNCHANGED <<hOwner, cOwner, hPoison, cPoison, lastSet, ops>>
  /\ \E h \in {clone_handle(m, FreshObject), NULL}, ret \in InitRets, reset \in BOOLEAN, ub \in UBOutcomes :
       LET made == IF h = NULL THEN nat ELSE [nat EXCEPT ![h] = Created]
           r == init_locked(NewConfiguration, Created, snap.datapath, snap.language,
                            ret, reset, << >>)
           c2 == [r.cfg EXCEPT !.variables = snap.variables]
       IN IF snap.datapath = EmptyStr
          THEN /\ alive' = [alive EXCEPT ![nm] = "live"]
               /\ handle' = [handle EXCEPT ![nm] = h]
               /\ cfg' = [cfg EXCEPT ![nm] = clone_uninitialized_config(snap)]
               /\ nat' = made
               /\ last' = Done(t, m, "Ok", <<"Create">>, "none", nm)
               /\ pc' = [pc EXCEPT ![t] = Idle]
               /\ UNCHANGED <<nullDeref, aborted>>
          ELSE IF h = NULL /\ r.calls # << >> /\ ub = "crash"
          THEN /\ abort(t, m, <<"Create">> \o r.calls)
               /\ nullDeref' = TRUE
               /\ UNCHANGED <<alive, handle, cfg, nat>>
          ELSE IF r.res = "Panic"
          THEN /\ abort(t, m, <<"Create">> \o r.calls)
               /\ nat' = IF h = NULL THEN nat ELSE [nat EXCEPT ![h] = r.no]
               /\ nullDeref' = (nullDeref \/ (h = NULL /\ r.calls # << >>))
               /\ UNCHANGED <<alive, handle, cfg>>
          ELSE IF r.res # "Ok"
          THEN /\ alive' = [alive EXCEPT ![nm] = "dropped"]
               /\ handle' = [handle EXCEPT ![nm] = h]
               /\ cfg' = [cfg EXCEPT ![nm] = r.cfg]
               /\ nat' = IF h = NULL THEN nat
                         ELSE [nat EXCEPT ![h] = drop_locked(r.no, h, reset)]
               /\ last' = Done(t, m, "Panic", <<"Create">> \o r.calls \o drop_calls(h),
                               r.ninit, nm)
               /\ pc' = [pc EXCEPT ![t] = Idle]
               /\ nullDeref' = (nullDeref \/ h = NULL)
               /\ UNCHANGED aborted
          ELSE /\ alive' = [alive EXCEPT ![nm] = "cloning"]
               /\ handle' = [handle EXCEPT ![nm] = h]
               /\ cfg' = [cfg EXCEPT ![nm] = c2]
               /\ nat' = IF h = NULL THEN nat ELSE [nat EXCEPT ![h] = r.no]
               /\ pc' = [pc EXCEPT ![t].stage = "replay_handle"]
               /\ nullDeref' = (nullDeref \/ h = NULL)
               /\ UNCHANGED <<last, aborted>>

\* The manager a clone call is building.
CloneOf == CHOOSE m \in Mgrs : alive[m] = "cloning"

\* let handle_guard = new_api.handle.lock().unwrap() (line 1509)
clone_lock_handle(t) ==
  /\ ~aborted
  /\ pc[t].op = "clone"
  /\ UNCHANGED aux
  /\ pc[t].stage = "replay_handle"
  /\ hOwner[CloneOf] = NoThread
  /\ hOwner' = [hOwner EXCEPT ![CloneOf] = t]
  /\ pc' = [pc EXCEPT ![t].stage = "replay_config"]
  /\ UNCHANGED <<alive, handle, cfg, cOwner, hPoison, cPoison, nat, last, lastSet, ops,
                 nullDeref, aborted>>

\* new_api.config.lock().unwrap() in the head of the for loop (line 1510): the
\* guard is a temporary of the loop's iterator expression and lives to its end.
clone_lock_config(t) ==
  /\ ~aborted
  /\ pc[t].op = "clone"
  /\ UNCHANGED aux
  /\ pc[t].stage = "replay_config"
  /\ cOwner[CloneOf] = NoThread
  /\ cOwner' = [cOwner EXCEPT ![CloneOf] = t]
  /\ pc' = [pc EXCEPT ![t].stage = "replay"]
  /\ UNCHANGED <<alive, handle, cfg, hOwner, hPoison, cPoison, nat, last, lastSet, ops,
                 nullDeref, aborted>>

\* The replay loop of clone (lines 1510-1515) and its return (line 1517).
clone_replay(t) ==
  LET m == pc[t].m
      nm == CloneOf
      h == handle[nm]
      built == init_locked(NewConfiguration, Created, cfg[nm].datapath, cfg[nm].language,
                           0, FALSE, << >>)
  IN
  /\ ~aborted
  /\ pc[t].op = "clone"
  /\ UNCHANGED aux
  /\ pc[t].stage = "replay"
  /\ UNCHANGED <<handle, cfg, hPoison, cPoison, lastSet, ops>>
  /\ \E ub \in UBOutcomes : \E order \in Orders(DOMAIN cfg[nm].variables) :
       LET r2 == apply_variables(cfg[nm].variables, order, 1, ObjectOf(nm),
                                 <<"Create">> \o built.calls)
       IN IF r2.res # "Ok" \/ (h = NULL /\ order # << >> /\ ub = "crash")
          THEN /\ abort(t, m, r2.calls)
               /\ nat' = IF h = NULL THEN nat ELSE [nat EXCEPT ![h] = r2.no]
               /\ nullDeref' = (nullDeref \/ h = NULL)
               /\ UNCHANGED <<alive, hOwner, cOwner>>
          ELSE /\ alive' = [alive EXCEPT ![nm] = "live"]
               /\ nat' = IF h = NULL THEN nat ELSE [nat EXCEPT ![h] = r2.no]
               /\ hOwner' = [hOwner EXCEPT ![nm] = NoThread]
               /\ cOwner' = [cOwner EXCEPT ![nm] = NoThread]
               /\ last' = Done(t, m, "Ok", r2.calls, built.ninit, nm)
               /\ pc' = [pc EXCEPT ![t] = Idle]
               /\ UNCHANGED <<nullDeref, aborted>>

\* impl Drop for TesseractAPI (lines 1476-1484).  The manager is owned
\* exclusively when it is dropped: no call on it is in progress.
drop(t, m) ==
  LET h == handle[m]
      poisoned == hPoison[m]
  IN
  /\ ~aborted
  /\ ops < MaxOps
  /\ pc[t].op = "idle"
  /\ alive[m] = "live"
  /\ ~InProgress(m)
  /\ UNCHANGED aux
  /\ ops' = ops + 1
  /\ alive' = [alive EXCEPT ![m] = "dropped"]
  /\ \E reset \in BOOLEAN :
       nat' = IF poisoned \/ h = NULL THEN nat
              ELSE [nat EXCEPT ![h] = drop_locked(@, h, reset)]
  /\ last' = [seq |-> ops + 1, t |-> t, m |-> m, op |-> "drop", a1 |-> EmptyStr,
              a2 |-> EmptyStr, res |-> IF poisoned THEN "Panic" ELSE "Ok",
              calls |-> IF poisoned THEN << >> ELSE drop_calls(h),
              ninit |-> "none", nm |-> 0]
  /\ UNCHANGED <<handle, cfg, hOwner, cOwner, hPoison, cPoison, pc, lastSet, nullDeref,
                 aborted>>

\* init_2 converts its arguments before it takes the lock (lines 1116-1117):
\* an interior NUL unwinds the call with no lock held.
init_2_rejected(t, m, p, l) ==
  /\ ~aborted
  /\ UNCHANGED aux
  /\ ops < MaxOps
  /\ pc[t].op = "idle"
  /\ alive[m] = "live"
  /\ CStringNewFails(p) \/ CStringNewFails(l)
  /\ ops' = ops + 1
  /\ last' = [seq |-> ops + 1, t |-> t, m |-> m, op |-> "init_2", a1 |-> p, a2 |-> l,
              res |-> "Panic", calls |-> << >>, ninit |-> "none", nm |-> 0]
  /\ UNCHANGED <<alive, handle, cfg, hOwner, cOwner, hPoison, cPoison, nat, pc, lastSet,
                 nullDeref, aborted>>

----------------------------------------------------------------------------
(* Buffers and cursors handed out by the engine *)

\* A buffer or cursor the engine allocated: what it holds, how often and through
\* which call it was released, and whether the caller got it in a wrapper.
Alloc(kind, data) ==
  [kind |-> kind, data |-> data, frees |-> 0, by |-> "none", kept |-> FALSE]

Release(hp, ptr, fn) == [hp EXCEPT ![ptr].frees = @ + 1, ![ptr].by = fn]

TessDeleteText(hp, ptr) == Release(hp, ptr, "TessDeleteText")
TessDeleteIntArray(hp, ptr) == Release(hp, ptr, "TessDeleteIntArray")
TessDeleteTextArray(hp, ptr) == Release(hp, ptr, "TessDeleteTextArray")
TessPageIteratorDelete(hp, ptr) == Release(hp, ptr, "TessPageIteratorDelete")
TessResultIteratorDelete(hp, ptr) == Release(hp, ptr, "TessResultIteratorDelete")

\* PageIterator::new(ptr) / ResultIterator::new(ptr): the wrapper owns the cursor.
Wrap(hp, ptr) == [hp EXCEPT ![ptr].kept = TRUE]

\* The terminator of a confidence array.
Sentinel == -1

\* What reading a buffer yields: its content while it is allocated.
Read(hp, ptr) == IF hp[ptr].frees = 0 THEN hp[ptr].data ELSE <<Sentinel>>

\* The arrays TessBaseAPIAllWordConfidences hands out: confidences 0..100 closed
\* by the terminator; the memory behind the terminator holds anything.
ConfArrays == {<<-1>>, <<88, 91, -1>>, <<0, -1, 7, -1>>}

\* The texts the engine hands out (104 105 is "hi", 195 169 a two-byte character,
\* 255 a byte no UTF-8 text holds).
TextHi == <<104, 105>>
TextAccent == <<195, 169>>
TextBad == <<104, 255>>
Texts == {EmptyStr, TextHi, TextAccent, TextBad}

\* The string vectors TessBaseAPIGetAvailableLanguagesAsVector hands out.
StrVecs == {<< >>, <<LangEng, LangFra>>, <<LangEng, TextBad, LangFra>>}

\* CStr::to_str: Err for bytes that are not UTF-8 (one- and two-byte forms; the
\* texts of this model hold no longer form).
RECURSIVE Utf8Valid(_, _)
Utf8Valid(s, i) ==
  IF i > Len(s) THEN TRUE
  ELSE IF s[i] < 128 THEN Utf8Valid(s, i + 1)
  ELSE IF s[i] >= 194 /\ s[i] <= 223 /\ i + 1 <= Len(s) /\ s[i + 1] >= 128 /\ s[i + 1] <= 191
  THEN Utf8Valid(s, i + 2)
  ELSE FALSE

to_str_fails(s) == ~Utf8Valid(s, 1)

\* while *confidences_ptr.offset(i) != -1 { push; i += 1 } (lines 140-145)
copy_with_terminator(arr, i, confidences) == arr

RECURSIVE copy_confidences(_, _, _)
copy_confidences(arr, i, confidences) ==
  IF arr[i + 1] # Sentinel
  THEN copy_confidences(arr, i + 1, Append(confidences, arr[i + 1]))
  ELSE confidences

\* The body of get_word_confidences (lines 136-147) and of all_word_confidences
\* (lines 594-605), which differ in the error for a null array.
confidences_locked(hp, isnull, arr, nullError) ==
  IF isnull
  THEN [res |-> nullError, out |-> << >>, heap |-> hp, calls |-> <<"AllWordConfidences">>,
        null |-> TRUE]
  ELSE LET hp1 == Append(hp, Alloc("ints", arr))
           confidences_ptr == Len(hp1)
       IN [res |-> "Ok",
           out |-> copy_confidences(Read(hp1, confidences_ptr), 0, << >>),
           heap |-> TessDeleteIntArray(hp1, confidences_ptr),
           calls |-> <<"AllWordConfidences", "DeleteIntArray">>, null |-> FALSE]

\* The body of get_hocr_text (lines 348-355) and of get_utf8_text (lines
\* 1342-1355): `?` leaves on a text that is not UTF-8, before TessDeleteText.
text_locked(hp, isnull, txt, fn) ==
  IF isnull
  THEN [res |-> "OcrError", out |-> << >>, heap |-> hp, calls |-> <<fn>>, null |-> TRUE]
  ELSE LET hp1 == Append(hp, Alloc("text", txt))
           text_ptr == Len(hp1)
       IN IF to_str_fails(Read(hp1, text_ptr))
          THEN [res |-> "Utf8Error", out |-> << >>, heap |-> hp1, calls |-> <<fn>>,
                null |-> FALSE]
          ELSE [res |-> "Ok", out |-> Read(hp1, text_ptr),
                heap |-> TessDeleteText(hp1, text_ptr), calls |-> <<fn, "DeleteText">>,
                null |-> FALSE]

\* The loop of string_vec_to_rust (lines 973-983): the vector ends at a null entry.
RECURSIVE copy_strings(_, _, _)
copy_strings(vec, i, result) ==
  IF i + 1 > Len(vec) THEN [res |-> "Ok", out |-> result]
  ELSE IF to_str_fails(vec[i + 1]) THEN [res |-> "Utf8Error", out |-> << >>]
  ELSE copy_strings(vec, i + 1, Append(result, vec[i + 1]))

\* fn string_vec_to_rust(&self, vec_ptr) (lines 969-986), after the native call.
string_vec_to_rust(hp, isnull, vec, fn) ==
  IF isnull
  THEN [res |-> "NullPointerError", out |-> << >>, heap |-> hp, calls |-> <<fn>>,
        null |-> TRUE]
  ELSE LET hp1 == Append(hp, Alloc("strs", vec))
           vec_ptr == Len(hp1)
           c == copy_strings(Read(hp1, vec_ptr), 0, << >>)
       IN IF c.res # "Ok"
          THEN [res |-> c.res, out |-> << >>, heap |-> hp1, calls |-> <<fn>>, null |-> FALSE]
          ELSE [res |-> "Ok", out |-> c.out, heap |-> TessDeleteTextArray(hp1, vec_ptr),
                calls |-> <<fn, "DeleteTextArray">>, null |-> FALSE]

\* The body of get_init_languages_as_string (lines 920-929): the string stays
\* the engine's, and a null string is answered with an empty one.
init_languages_locked(hp, isnull, txt) ==
  IF isnull
  THEN [res |-> "Ok", out |-> EmptyStr, heap |-> hp,
        calls |-> <<"GetInitLanguagesAsString">>, null |-> TRUE]
  ELSE IF to_str_fails(txt)
  THEN [res |-> "Utf8Error", out |-> << >>, heap |-> hp,
        calls |-> <<"GetInitLanguagesAsString">>, null |-> FALSE]
  ELSE [res |-> "Ok", out |-> txt, heap |-> hp,
        calls |-> <<"GetInitLanguagesAsString">>, null |-> FALSE]

\* The body of detect_os (lines 638-662), by the script name it returns: result
\* is the status of TessBaseAPIDetectOrientationScript, and a null script name
\* is answered with an empty one.
detect_os_locked(hp, result, isnull, txt) ==
  IF result = 0
  THEN [res |-> "OcrError", out |-> << >>, heap |-> hp,
        calls |-> <<"DetectOrientationScript">>, null |-> FALSE]
  ELSE IF ~isnull
  THEN LET hp1 == Append(hp, Alloc("text", txt))
           script_name_ptr == Len(hp1)
       IN IF to_str_fails(Read(hp1, script_name_ptr))
          THEN [res |-> "Utf8Error", out |-> << >>, heap |-> hp1,
                calls |-> <<"DetectOrientationScript">>, null |-> FALSE]
          ELSE [res |-> "Ok", out |-> Read(hp1, script_name_ptr),
                heap |-> TessDeleteText(hp1, script_name_ptr),
                calls |-> <<"DetectOrientationScript", "DeleteText">>, null |-> FALSE]
  ELSE [res |-> "Ok", out |-> EmptyStr, heap |-> hp,
        calls |-> <<"DetectOrientationScript">>, null |-> TRUE]

\* The part of get_iterators that follows recognize (lines 1453-1469).
release_nothing(hp, page_iter, result_iter) == hp

release_obtained(hp, page_iter, result_iter) ==
  LET hp1 == IF page_iter # NULL THEN TessPageIteratorDelete(hp, page_iter) ELSE hp
  IN IF result_iter # NULL THEN TessResultIteratorDelete(hp1, result_iter) ELSE hp1

get_iterators_locked(hp, pageNull, resultNull) ==
  LET hp1 == IF pageNull THEN hp ELSE Append(hp, Alloc("page", << >>))
      page_iter == IF pageNull THEN NULL ELSE Len(hp1)
      hp2 == IF resultNull THEN hp1 ELSE Append(hp1, Alloc("result", << >>))
      result_iter == IF resultNull THEN NULL ELSE Len(hp2)
      calls == <<"Recognize", "AnalyseLayout", "GetIterator">>
  IN IF page_iter = NULL \/ result_iter = NULL
     THEN [res |-> "NullPointerError", out |-> << >>,
           heap |-> release_obtained(hp2, page_iter, result_iter),
           calls |-> calls \o (IF page_iter # NULL THEN <<"PageIteratorDelete">> ELSE << >>)
                           \o (IF result_iter # NULL THEN <<"ResultIteratorDelete">> ELSE << >>),
           null |-> TRUE]
     ELSE [res |-> "Ok", out |-> <<page_iter, result_iter>>,
           heap |-> Wrap(Wrap(hp2, page_iter), result_iter), calls |-> calls,
           null |-> FALSE]

----------------------------------------------------------------------------
(* Calls that return buffers and cursors *)

\* A native call on a null handle that crashes the process.
Crash(t, calls, ub) == handle[pc[t].m] = NULL /\ calls # << >> /\ ub = "crash"

\* The locked part of a call that leaves the configuration and the engine's
\* session alone has run with outcome r.
finish(t, r, ub) ==
  /\ complete(t, [cfg |-> cfg[pc[t].m], no |-> ObjectOf(pc[t].m), res |-> r.res,
                  calls |-> r.calls, ninit |-> "none"], ub)
  /\ heap' = IF Crash(t, r.calls, ub) THEN heap ELSE r.heap
  /\ out' = IF Crash(t, r.calls, ub) THEN out ELSE r.out
  /\ nullPtr' = IF Crash(t, r.calls, ub) THEN nullPtr ELSE r.null
  /\ UNCHANGED <<lastSet, image, build>>

get_word_confidences(t) ==
  /\ AtBody(t, "get_word_confidences")
  /\ \E isnull \in BOOLEAN, arr \in ConfArrays, ub \in UBOutcomes :
       finish(t, confidences_locked(heap, isnull, arr, "NullPointerError"), ub)

all_word_confidences(t) ==
  /\ AtBody(t, "all_word_confidences")
  /\ \E isnull \in BOOLEAN, arr \in ConfArrays, ub \in UBOutcomes :
       finish(t, confidences_locked(heap, isnull, arr, "OcrError"), ub)

get_hocr_text(t) ==
  /\ AtBody(t, "get_hocr_text")
  /\ \E isnull \in BOOLEAN, txt \in Texts, ub \in UBOutcomes :
       finish(t, text_locked(heap, isnull, txt, "GetHOCRText"), ub)

\* get_utf8_text tests the handle for null before the native call (line 1338).
get_utf8_text(t) ==
  /\ AtBody(t, "get_utf8_text")
  /\ \E isnull \in BOOLEAN, txt \in Texts, ub \in UBOutcomes :
       finish(t, IF handle[pc[t].m] = NULL
                 THEN [res |-> "UninitializedError", out |-> << >>, heap |-> heap,
                       calls |-> << >>, null |-> FALSE]
                 ELSE text_locked(heap, isnull, txt, "GetUTF8Text"), ub)

get_available_languages(t) ==
  /\ AtBody(t, "get_available_languages")
  /\ \E isnull \in BOOLEAN, vec \in StrVecs, ub \in UBOutcomes :
       finish(t, string_vec_to_rust(heap, isnull, vec, "GetAvailableLanguagesAsVector"), ub)

get_init_languages_as_string(t) ==
  /\ AtBody(t, "get_init_languages_as_string")
  /\ \E isnull \in BOOLEAN, txt \in Texts, ub \in UBOutcomes :
       finish(t, init_languages_locked(heap, isnull, txt), ub)

detect_os(t) ==
  /\ AtBody(t, "detect_os")
  /\ \E result \in BOOLEAN, isnull \in BOOLEAN, txt \in Texts, ub \in UBOutcomes :
       finish(t, detect_os_locked(heap, IF result THEN 1 ELSE 0, isnull, txt), ub)

\* The holder of the handle lock once recognize has returned: its guard is dropped.
recognize_guard_kept(m) == hOwner[m]

recognize_guard_dropped(m) == NoThread

\* self.recognize()? at the head of get_iterators (line 1445): recognize takes
\* the handle lock and lets it go when it returns.
get_iterators_recognize(t) ==
  LET m == pc[t].m IN
  /\ AtBody(t, "get_iterators")
  /\ UNCHANGED <<lastSet, aux>>
  /\ \E ret \in InitRets, ub \in UBOutcomes :
       LET r == recognize_locked(cfg[m], ObjectOf(m), ret)
       IN IF r.res # "Ok" \/ Crash(t, r.calls, ub)
          THEN complete(t, r, ub)
          ELSE /\ hOwner' = [hOwner EXCEPT ![m] = recognize_guard_dropped(m)]
               /\ pc' = [pc EXCEPT ![t].stage = "relock"]
               /\ nullDeref' = (nullDeref \/ handle[m] = NULL)
               /\ UNCHANGED <<alive, handle, cfg, cOwner, hPoison, cPoison, nat, last, ops,
                              aborted>>

\* The second self.handle.lock() of get_iterators (lines 1447-1450).
get_iterators_relock(t) ==
  LET m == pc[t].m IN
  /\ ~aborted
  /\ pc[t].op = "get_iterators"
  /\ pc[t].stage = "relock"
  /\ HandleLockAvailable(m)
  /\ UNCHANGED aux
  /\ IF hPoison[m]
     THEN /\ last' = Done(t, m, "MutexLockError", <<"Recognize">>, "none", 0)
          /\ pc' = [pc EXCEPT ![t] = Idle]
          /\ UNCHANGED <<alive, handle, cfg, hOwner, cOwner, hPoison, cPoison, nat, lastSet,
                         ops, nullDeref, aborted>>
     ELSE /\ hOwner' = [hOwner EXCEPT ![m] = t]
          /\ pc' = [pc EXCEPT ![t].stage = "cursors"]
          /\ UNCHANGED <<alive, handle, cfg, cOwner, hPoison, cPoison, nat, last, lastSet,
                         ops, nullDeref, aborted>>

\* The two cursor requests of get_iterators and what follows (lines 1453-1469).
get_iterators_cursors(t) ==
  /\ ~aborted
  /\ pc[t].op = "get_iterators"
  /\ pc[t].stage = "cursors"
  /\ \E pageNull \in BOOLEAN, resultNull \in BOOLEAN, ub \in UBOutcomes :
       finish(t, get_iterators_locked(heap, pageNull, resultNull), ub)

----------------------------------------------------------------------------
(* set_image *)

\* i32 is modelled with IntBits bits, two's complement, and usize with twice as
\* many: the products of set_image overflow in this range as they do in 32 bits.
IntBits == 5

MinInt == -(2 ^ (IntBits - 1))
MaxInt == 2 ^ (IntBits - 1) - 1

\* The value an i32 operation leaves when its exact result is x and it wraps.
wrapping(x) == ((x - MinInt) % (2 ^ IntBits)) + MinInt

overflows(x) == x < MinInt \/ x > MaxInt

\* `x as usize` for an i32 x: sign-extended, then read as unsigned.
as_usize(x) == IF x < 0 THEN x + 2 ^ (2 * IntBits) ELSE x

\* An overflowing multiplication panics in a build with overflow checks (the
\* default of the dev profile) and wraps in one without (the release profile).
Builds == {"checked", "wrapping"}

\* The dimensions and buffer lengths set_image is called with:
\* <<image_data.len(), width, height, bytes_per_pixel, bytes_per_line>>.
Big == 2 ^ (IntBits - 2)
Dims == {-1, 0, 1, 2, Big}
BufLens == {0, 1, 2}
Images == BufLens \X Dims \X Dims \X Dims \X Dims

\* The validation at the head of set_image (lines 1233-1249): the error it
\* returns, "Panic" for an overflow check that fails, or "pass".
set_image_checked(len, width, height, bytes_per_pixel, bytes_per_line, profile) ==
  IF width <= 0 \/ height <= 0 THEN "InvalidDimensions"
  ELSE IF bytes_per_pixel <= 0 THEN "InvalidBytesPerPixel"
  ELSE IF overflows(width * bytes_per_pixel) /\ profile = "checked" THEN "Panic"
  ELSE IF bytes_per_line < wrapping(width * bytes_per_pixel) THEN "InvalidBytesPerLine"
  ELSE IF overflows(height * bytes_per_line) /\ profile = "checked" THEN "Panic"
  ELSE LET expected_size == as_usize(wrapping(height * bytes_per_line))
       IN IF len < expected_size THEN "InvalidImageData" ELSE "pass"

\* set_image returns from its validation, before it takes the handle lock.
set_image_validate ==
  set_image_checked(image[1], image[2], image[3], image[4], image[5], build)

set_image_rejected(t, m) ==
  /\ ~aborted
  /\ ops < MaxOps
  /\ pc[t].op = "idle"
  /\ alive[m] = "live"
  /\ set_image_validate # "pass"
  /\ ops' = ops + 1
  /\ last' = [seq |-> ops + 1, t |-> t, m |-> m, op |-> "set_image", a1 |-> image,
              a2 |-> EmptyStr, res |-> set_image_validate,
              calls |-> << >>, ninit |-> "none", nm |-> 0]
  /\ UNCHANGED <<alive, handle, cfg, hOwner, cOwner, hPoison, cPoison, nat, pc, lastSet,
                 nullDeref, aborted, aux>>

\* set_image goes on to the handle lock (lines 1251-1254).
set_image_accepted(t, m) ==
  /\ set_image_validate = "pass"
  /\ call(t, "set_image", m, image, EmptyStr)

\* TessBaseAPISetImage under the handle lock (lines 1256-1266).
set_image(t) ==
  /\ AtBody(t, "set_image")
  /\ \E ub \in UBOutcomes :
       finish(t, [res |-> "Ok", out |-> << >>, heap |-> heap, calls |-> <<"SetImage">>,
                  null |-> FALSE], ub)

----------------------------------------------------------------------------
(* init, statement by statement *)

\* The thread is inside the body of init, between two of its native calls.
InInit(t) == pc[t].op = "init" /\ pc[t].stage \in {"entered", "initialized"}

\* A part of the body of init has run with outcome r and init goes on: the
\* snapshot and the native object hold what it wrote, both guards stay held.
init_step(t, r, stage, ub) ==
  LET m == pc[t].m
      h == handle[m]
  IN IF Crash(t, r.calls, ub)
     THEN /\ aborted' = TRUE
          /\ nullDeref' = TRUE
          /\ UNCHANGED <<alive, handle, cfg, hOwner, cOwner, hPoison, cPoison, nat, pc, last,
                         ops>>
     ELSE /\ cfg' = [cfg EXCEPT ![m] = r.cfg]
          /\ nat' = IF h = NULL THEN nat ELSE [nat EXCEPT ![h] = r.no]
          /\ pc' = [pc EXCEPT ![t].stage = stage, ![t].calls = r.calls]
          /\ nullDeref' = (nullDeref \/ (h = NULL /\ r.calls # << >>))
          /\ UNCHANGED <<alive, handle, hOwner, cOwner, hPoison, cPoison, last, ops, aborted>>

\* Lines 86-98 of init.
init_begin(t) ==
  /\ AtBody(t, "init")
  /\ UNCHANGED <<lastSet, aux>>
  /\ \E reset \in BOOLEAN, ub \in UBOutcomes :
       init_step(t, init_begin_locked(cfg[pc[t].m], ObjectOf(pc[t].m), pc[t].a1, pc[t].a2,
                                      reset), "entered", ub)

\* Lines 100-110 of init.
init_native(t) ==
  /\ ~aborted
  /\ pc[t].op = "init"
  /\ pc[t].stage = "entered"
  /\ UNCHANGED <<lastSet, aux>>
  /\ \E ret \in InitRets, reset \in BOOLEAN, ub \in UBOutcomes :
       LET n == init_native_locked(cfg[pc[t].m], ObjectOf(pc[t].m), pc[t].calls, pc[t].a1,
                                   pc[t].a2, ret, reset)
       IN IF n.ninit = "ok" THEN init_step(t, n, "initialized", ub) ELSE complete(t, n, ub)

\* Lines 112-121 of init.
init_replay(t) ==
  /\ ~aborted
  /\ pc[t].op = "init"
  /\ pc[t].stage = "initialized"
  /\ UNCHANGED <<lastSet, aux>>
  /\ \E ub \in UBOutcomes : \E order \in Orders(DOMAIN cfg[pc[t].m].variables) :
       complete(t, init_replay_locked(cfg[pc[t].m], ObjectOf(pc[t].m), pc[t].calls, order), ub)

----------------------------------------------------------------------------
(* Specifications *)

\* What thread t can do next, with the arguments of its calls drawn from the given sets.
Step(t, PS, LS, NS, VS) ==
  \/ \E m \in Mgrs, p \in PS, l \in LS : call(t, "init", m, p, l)
  \/ \E m \in Mgrs, n \in NS, v \in VS : call(t, "set_variable", m, n, v)
  \/ \E m \in Mgrs : call(t, "end", m, EmptyStr, EmptyStr)
  \/ \E m \in Mgrs, p \in PS, l \in LS :
       ~(CStringNewFails(p) \/ CStringNewFails(l)) /\ call(t, "init_2", m, p, l)
  \/ \E m \in Mgrs, p \in PS, l \in LS : init_2_rejected(t, m, p, l)
  \/ \E m \in Mgrs : call(t, "recognize", m, EmptyStr, EmptyStr)
  \/ \E m \in Mgrs : call(t, "clone", m, EmptyStr, EmptyStr)
  \/ lock_config(t)
  \/ lock_handle(t)
  \/ init(t)
  \/ set_variable(t)
  \/ end(t)
  \/ init_2(t)
  \/ recognize(t)
  \/ clone(t)
  \/ clone_lock_handle(t)
  \/ clone_lock_config(t)
  \/ clone_replay(t)
  \/ \E m \in Mgrs : drop(t, m)

\* One thread: the calls follow one another.
Next == \E t \in SeqThreads : Step(t, Paths, Langs, Names, Values)

Spec == Init /\ [][Next]_vars

\* Several threads share the managers.
ConcPaths == {PathP, PathNul}
ConcLangs == {LangEng}
ConcNames == {NameK}
ConcValues == {Val1}

NextConc == \E t \in Threads : Step(t, ConcPaths, ConcLangs, ConcNames, ConcValues)

SpecConc == Init /\ [][NextConc]_vars

\* One thread calls the operations that return buffers and cursors.
NextBuf ==
  \E t \in SeqThreads :
    \/ \E m \in Mgrs : call(t, "get_word_confidences", m, EmptyStr, EmptyStr)
    \/ \E m \in Mgrs : call(t, "all_word_confidences", m, EmptyStr, EmptyStr)
    \/ \E m \in Mgrs : call(t, "get_hocr_text", m, EmptyStr, EmptyStr)
    \/ \E m \in Mgrs : call(t, "get_utf8_text", m, EmptyStr, EmptyStr)
    \/ \E m \in Mgrs : call(t, "get_available_languages", m, EmptyStr, EmptyStr)
    \/ \E m \in Mgrs : call(t, "get_iterators", m, EmptyStr, EmptyStr)
    \/ lock_handle(t)
    \/ get_word_confidences(t)
    \/ all_word_confidences(t)
    \/ get_hocr_text(t)
    \/ get_utf8_text(t)
    \/ get_available_languages(t)
    \/ get_iterators_recognize(t)
    \/ get_iterators_relock(t)
    \/ get_iterators_cursors(t)

SpecBuf == Init /\ [][NextBuf]_vars

\* Several threads call init, set_variable, end and clone, and init runs one
\* statement at a time.
NextSteps ==
  \E t \in Threads :
    \/ \E m \in Mgrs, p \in ConcPaths, l \in ConcLangs : call(t, "init", m, p, l)
    \/ \E m \in Mgrs, n \in ConcNames, v \in ConcValues : call(t, "set_variable", m, n, v)
    \/ \E m \in Mgrs : call(t, "end", m, EmptyStr, EmptyStr)
    \/ \E m \in Mgrs : call(t, "clone", m, EmptyStr, EmptyStr)
    \/ lock_config(t)
    \/ lock_handle(t)
    \/ init_begin(t)
    \/ init_native(t)
    \/ init_replay(t)
    \/ set_variable(t)
    \/ end(t)
    \/ clone(t)
    \/ clone_lock_handle(t)
    \/ clone_lock_config(t)
    \/ clone_replay(t)

SpecSteps == Init /\ [][NextSteps]_vars

\* One thread calls the operations that can be handed a null pointer.
NextNull ==
  \E t \in SeqThreads :
    \/ \E m \in Mgrs : call(t, "get_init_languages_as_string", m, EmptyStr, EmptyStr)
    \/ \E m \in Mgrs : call(t, "detect_os", m, EmptyStr, EmptyStr)
    \/ \E m \in Mgrs : call(t, "get_available_languages", m, EmptyStr, EmptyStr)
    \/ \E m \in Mgrs : call(t, "get_word_confidences", m, EmptyStr, EmptyStr)
    \/ lock_handle(t)
    \/ get_init_languages_as_string(t)
    \/ detect_os(t)
    \/ get_available_languages(t)
    \/ get_word_confidences(t)

SpecNull == Init /\ [][NextNull]_vars

\* One thread calls set_image with every shape of image.
NextImage ==
  \E t \in SeqThreads :
    \/ \E m \in Mgrs : set_image_rejected(t, m)
    \/ \E m \in Mgrs : set_image_accepted(t, m)
    \/ lock_handle(t)
    \/ set_image(t)

InitImage ==
  /\ InitManagers
  /\ image \in Images
  /\ build \in Builds

SpecImage == InitImage /\ [][NextImage]_vars

\* Several threads call init, set_variable, end, clone and get_iterators.
Start(t) ==
  \/ \E m \in Mgrs, p \in ConcPaths, l \in ConcLangs : call(t, "init", m, p, l)
  \/ \E m \in Mgrs, n \in ConcNames, v \in ConcValues : call(t, "set_variable", m, n, v)
  \/ \E m \in Mgrs : call(t, "end", m, EmptyStr, EmptyStr)
  \/ \E m \in Mgrs : call(t, "clone", m, EmptyStr, EmptyStr)
  \/ \E m \in Mgrs : call(t, "get_iterators", m, EmptyStr, EmptyStr)

\* The steps that take a lock.
Acquire(t) ==
  \/ lock_config(t)
  \/ lock_handle(t)
  \/ clone_lock_handle(t)
  \/ clone_lock_config(t)
  \/ get_iterators_relock(t)

\* The steps a thread takes with the locks it needs in hand.
Run(t) ==
  \/ init(t)
  \/ set_variable(t)
  \/ end(t)
  \/ clone(t)
  \/ clone_replay(t)
  \/ get_iterators_recognize(t)
  \/ get_iterators_cursors(t)

NextIter == \E t \in Threads : Start(t) \/ Acquire(t) \/ Run(t)

SpecIter == Init /\ [][NextIter]_vars

\* Every native call returns and the mutexes are fair: a thread that can run
\* does, and a thread whose lock is free again and again gets it.
SpecIterFair ==
  SpecIter /\ \A t \in Threads : WF_vars(Run(t)) /\ SF_vars(Acquire(t))

\* The operations that hand out one cursor.
CursorOps ==
  {"get_page_iterator", "get_iterator", "get_mutable_iterator", "analyse_layout",
   "analyze_layout"}

\* The native call each of them forwards (lines 693, 1368, 1385, 1402, 1435).
cursor_call(op) ==
  CASE op = "get_page_iterator" -> "GetIterator"
    [] op = "get_iterator" -> "GetIterator"
    [] op = "get_mutable_iterator" -> "GetMutableIterator"
    [] op = "analyse_layout" -> "AnalyseLayout"
    [] op = "analyze_layout" -> "AnalyseLayout"

\* What the engine hands out: TessBaseAPIAnalyseLayout a layout cursor,
\* TessBaseAPIGetIterator and TessBaseAPIGetMutableIterator a result cursor.
cursor_kind(fn) == IF fn = "AnalyseLayout" THEN "page" ELSE "result"

\* The type each of them wraps the reference in (lines 697, 1372, 1389, 1406, 1439).
cursor_wrapper(op) ==
  CASE op = "get_page_iterator" -> "PageIterator"
    [] op = "get_iterator" -> "ResultIterator"
    [] op = "get_mutable_iterator" -> "ResultIterator"
    [] op = "analyse_layout" -> "PageIterator"
    [] op = "analyze_layout" -> "PageIterator"

\* The body of a cursor getter, run with the handle lock held: the reference,
\* which points into the session of object h, is wrapped and returned; a null
\* reference is NullPointerError.
cursor_locked(hp, h, op, isnull) ==
  LET fn == cursor_call(op)
      hp1 == Append(hp, Alloc(cursor_kind(fn), <<h>>))
      ptr == Len(hp1)
  IN IF isnull
     THEN [res |-> "NullPointerError", out |-> << >>, heap |-> hp, calls |-> <<fn>>,
           null |-> TRUE]
     ELSE [res |-> "Ok", out |-> <<[wrapper |-> cursor_wrapper(op), ptr |-> ptr]>>,
           heap |-> Wrap(hp1, ptr), calls |-> <<fn>>, null |-> FALSE]

\* The engine has a cursor to hand out only for a session that is initialised.
get_cursor(t) ==
  /\ ~aborted
  /\ pc[t].op \in CursorOps
  /\ pc[t].stage = "native"
  /\ \E isnull \in BOOLEAN, ub \in UBOutcomes :
       /\ ObjectOf(pc[t].m).st # "initialized" => isnull
       /\ finish(t, cursor_locked(heap, handle[pc[t].m], pc[t].op, isnull), ub)

\* The teardown call of a wrapper (lines 3-4): one per kind.
cursor_delete(hp, c) ==
  IF c.wrapper = "PageIterator"
  THEN TessPageIteratorDelete(hp, c.ptr)
  ELSE TessResultIteratorDelete(hp, c.ptr)

\* The caller lets go of the cursor the latest getter returned.
release_cursor(t) ==
  /\ ~aborted
  /\ pc[t].op = "idle"
  /\ out # << >>
  /\ heap' = cursor_delete(heap, out[1])
  /\ out' = << >>
  /\ last' = [seq |-> ops, t |-> t, m |-> last.m, op |-> "release_cursor", a1 |-> EmptyStr,
              a2 |-> EmptyStr, res |-> "Ok",
              calls |-> <<IF out[1].wrapper = "PageIterator" THEN "PageIteratorDelete"
                          ELSE "ResultIteratorDelete">>,
              ninit |-> "none", nm |-> 0]
  /\ UNCHANGED <<alive, handle, cfg, hOwner, cOwner, hPoison, cPoison, nat, pc, lastSet, ops,
                 nullDeref, aborted, nullPtr, image, build>>

\* One thread initialises, ends and drops managers, obtains cursors and lets
\* them go.
NextCursor ==
  \E t \in SeqThreads :
    \/ \E m \in Mgrs : call(t, "init", m, PathP, LangEng)
    \/ \E m \in Mgrs : call(t, "end", m, EmptyStr, EmptyStr)
    \/ \E m \in Mgrs, op \in CursorOps : call(t, op, m, EmptyStr, EmptyStr)
    \/ lock_config(t)
    \/ lock_handle(t)
    \/ init(t)
    \/ end(t)
    \/ get_cursor(t)
    \/ release_cursor(t)
    \/ \E m \in Mgrs : drop(t, m)

SpecCursor == Init /\ [][NextCursor]_vars

\* The operations that forward the status of one native call.
BoolOps == {"set_debug_variable", "print_variables_to_file", "detect_os"}
InitOps == {"init_1", "init_2", "init_4", "init_5", "recognize"}

\* What the native calls return: a BOOL, or 0 for success and -1 for failure.
BoolRets == {0, 1}
StatusRets(op) == IF op \in BoolOps THEN BoolRets ELSE InitRets

\* if result != 1 { Err(SetVariableError) } else { Ok(()) } (lines 772-776)
set_debug_variable_status(result) == IF result # 1 THEN "SetVariableError" ELSE "Ok"

\* if result != 0 { Err(IoError) } else { Ok(()) } (lines 795-799)
print_variables_to_file_status(result) == IF result # 0 THEN "IoError" ELSE "Ok"

\* if result != 0 { Err(InitError) } else { Ok(()) } (lines 1097-1101, 1162-1166, 1208-1212)
init_n_status(result) == IF result # 0 THEN "InitError" ELSE "Ok"

\* The body of each operation, run with the handle lock held, on the status
\* result of its native call; the snapshot is not touched.
status_locked(c, o, hp, op, a1, a2, result, reset, isnull, txt) ==
  CASE op = "set_debug_variable" ->
         [cfg |-> c, no |-> o, res |-> set_debug_variable_status(result),
          calls |-> <<"SetDebugVariable">>, ninit |-> "none", heap |-> hp]
    [] op = "print_variables_to_file" ->
         [cfg |-> c, no |-> o, res |-> print_variables_to_file_status(result),
          calls |-> <<"PrintVariablesToFile">>, ninit |-> "none", heap |-> hp]
    [] op = "detect_os" ->
         LET r == detect_os_locked(hp, result, isnull, txt)
         IN [cfg |-> c, no |-> o, res |-> r.res, calls |-> r.calls, ninit |-> "none",
             heap |-> r.heap]
    [] op \in {"init_1", "init_4", "init_5"} ->
         [cfg |-> c, no |-> TessBaseAPIInit3(o, a1, a2, result, reset),
          res |-> init_n_status(result), calls |-> <<"InitN">>,
          ninit |-> IF result # 0 THEN "fail" ELSE "ok", heap |-> hp]
    [] op = "init_2" ->
         [heap |-> hp] @@ init_2_locked(c, o, a1, a2, result, reset)
    [] op = "recognize" ->
         [heap |-> hp] @@ recognize_locked(c, o, result)

\* The locked part of an operation that forwards a status; `out` records the
\* value the native call returned.
forward_status(t) ==
  /\ ~aborted
  /\ pc[t].op \in BoolOps \cup InitOps
  /\ pc[t].stage = "native"
  /\ \E result \in StatusRets(pc[t].op), reset \in BOOLEAN, isnull \in BOOLEAN,
        txt \in Texts, ub \in UBOutcomes :
       LET r == status_locked(cfg[pc[t].m], ObjectOf(pc[t].m), heap, pc[t].op, pc[t].a1,
                              pc[t].a2, result, reset, isnull, txt)
       IN /\ complete(t, r, ub)
          /\ heap' = IF Crash(t, r.calls, ub) THEN heap ELSE r.heap
          /\ out' = IF Crash(t, r.calls, ub) THEN out ELSE <<result>>
  /\ UNCHANGED <<lastSet, nullPtr, image, build>>

\* One thread calls the operations that forward a status, with arguments that
\* hold no NUL byte.
NextStatus ==
  \E t \in SeqThreads :
    \/ \E m \in Mgrs : call(t, "set_debug_variable", m, NameK, Val1)
    \/ \E m \in Mgrs : call(t, "print_variables_to_file", m, PathP, EmptyStr)
    \/ \E m \in Mgrs : call(t, "detect_os", m, EmptyStr, EmptyStr)
    \/ \E m \in Mgrs, op \in InitOps : call(t, op, m, PathP, LangEng)
    \/ \E m \in Mgrs : call(t, "init", m, PathP, LangEng)
    \/ \E m \in Mgrs, n \in {NameK, NameX} : call(t, "set_variable", m, n, Val1)
    \/ lock_config(t)
    \/ lock_handle(t)
    \/ forward_status(t)
    \/ init(t)
    \/ set_variable(t)

SpecStatus == Init /\ [][NextStatus]_vars

\* A manager that was set up, initialised and ended: the state that
\* new(); set_variable(k, 1); init(p, e); end() leaves when every call
\* returned Ok.  The snapshot keeps what init stored (end leaves it alone).
EndedSession(reset) ==
  LET s == set_variable_locked(NewConfiguration, Created, NameK, Val1)
      i == init_locked(s.cfg, s.no, PathP, LangEng, 0, reset, <<NameK>>)
  IN end_locked(i.cfg, i.no, reset)

InitEnded ==
  /\ \E reset \in BOOLEAN :
       /\ nat = [o \in Objects |-> IF o = 1 THEN EndedSession(reset).no ELSE Unallocated]
       /\ cfg = [m \in Mgrs |-> IF m = 1 THEN EndedSession(reset).cfg ELSE NewConfiguration]
  /\ handle = [m \in Mgrs |-> IF m = 1 THEN 1 ELSE NULL]
  /\ alive = [m \in Mgrs |-> IF m = 1 THEN "live" ELSE "none"]
  /\ hOwner = [m \in Mgrs |-> NoThread]
  /\ cOwner = [m \in Mgrs |-> NoThread]
  /\ hPoison = [m \in Mgrs |-> FALSE]
  /\ cPoison = [m \in Mgrs |-> FALSE]
  /\ pc = [t \in Threads |-> Idle]
  /\ last = [seq |-> 0, t |-> 1, m |-> 1, op |-> "end", a1 |-> EmptyStr, a2 |-> EmptyStr,
             res |-> "Ok", calls |-> <<"End">>, ninit |-> "none", nm |-> 0]
  /\ lastSet = [m \in Mgrs |-> IF m = 1 THEN Insert(EmptyVars, NameK, Val1) ELSE EmptyVars]
  /\ ops = 0
  /\ nullDeref = FALSE
  /\ aborted = FALSE
  /\ heap = << >>
  /\ out = << >>
  /\ nullPtr = FALSE
  /\ image = NoImage
  /\ build = "checked"

\* One thread goes on with init, set_variable and end on the ended manager;
\* ops counts the calls started since.
NextReuse ==
  \E t \in SeqThreads :
    \/ \E m \in Mgrs, p \in Paths, l \in Langs : call(t, "init", m, p, l)
    \/ \E m \in Mgrs, n \in Names, v \in Values : call(t, "set_variable", m, n, v)
    \/ \E m \in Mgrs : call(t, "end", m, EmptyStr, EmptyStr)
    \/ lock_config(t)
    \/ lock_handle(t)
    \/ init(t)
    \/ set_variable(t)
    \/ end(t)

SpecReuse == InitEnded /\ [][NextReuse]_vars

----------------------------------------------------------------------------
(* Properties *)

\* A call has just returned: `last` is rewritten by every return.
Returned == last' # last

Quiet(m) == alive[m] = "live" /\ ~InProgress(m)

Sound(m) == ~hPoison[m] /\ ~cPoison[m]

Before(calls, f, g) ==
  \E i, j \in 1..Len(calls) : i < j /\ calls[i] = f /\ calls[j] = g

Count(calls, f) == Cardinality({i \in 1..Len(calls) : calls[i] = f})

NativeValue(m, n) == nat[handle[m]].vars[n]

\* C1: when init(p, l) returned Ok and the next call is init(p2, l2) on the same
\* manager with p2 # p or l2 # l, and that call reaches the native initialiser,
\* TessBaseAPIEnd is issued before TessBaseAPIInit3; and when the initialiser
\* succeeds the snapshot holds (p2, l2).
C1_ReinitOnChange ==
  [][(/\ Returned
      /\ last.op = "init" /\ last.res = "Ok" /\ handle[last.m] # NULL
      /\ last'.op = "init" /\ last'.m = last.m
      /\ (last'.a1 # last.a1 \/ last'.a2 # last.a2)
      /\ last'.ninit # "none")
     => /\ Before(last'.calls, "End", "Init3")
        /\ last'.ninit = "ok" =>
             /\ cfg'[last'.m].datapath = last'.a1
             /\ cfg'[last'.m].language = last'.a2]_vars

\* C2: in the state an init call that returned Ok leaves behind, the engine's
\* value of every name given to set_variable is the value of the latest such
\* call; and an init call whose native initialisation succeeded has then issued
\* TessBaseAPISetVariable for every entry of the snapshot's variables.
C2_VariableReplay ==
  /\ (last.op = "init" /\ last.res = "Ok" /\ alive[last.m] = "live" /\ handle[last.m] # NULL)
     => \A n \in DOMAIN lastSet[last.m] :
          n \in KnownParams /\ NativeValue(last.m, n) = lastSet[last.m][n]
  /\ (last.op = "init" /\ last.ninit = "ok" /\ handle[last.m] # NULL)
     => /\ Before(last.calls, "Init3", "SetVariable") \/ DOMAIN cfg[last.m].variables = {}
        /\ Count(last.calls, "SetVariable") = Cardinality(DOMAIN cfg[last.m].variables)

\* The part of C2 that holds: what an init call that returned Ok leaves behind.
ReplayWhenOk ==
  (last.op = "init" /\ last.res = "Ok" /\ alive[last.m] = "live" /\ handle[last.m] # NULL)
  => /\ \A n \in DOMAIN lastSet[last.m] :
          n \in KnownParams /\ NativeValue(last.m, n) = lastSet[last.m][n]
     /\ \A n \in DOMAIN cfg[last.m].variables :
          n \in KnownParams /\ NativeValue(last.m, n) = cfg[last.m].variables[n]
     /\ Count(last.calls, "SetVariable") = Cardinality(DOMAIN cfg[last.m].variables)

\* C3: an init call whose native initialiser reports failure returns InitError
\* and leaves the snapshot's datapath and language empty and its variables as
\* they were.
C3_FailedInitClears ==
  [][(Returned /\ last'.op = "init" /\ last'.ninit = "fail")
     => /\ last'.res = "InitError"
        /\ cfg'[last'.m].datapath = EmptyStr
        /\ cfg'[last'.m].language = EmptyStr
        /\ cfg'[last'.m].variables = cfg[last'.m].variables]_vars

\* C3 happens: the failed init found a stored configuration (it issued End) and
\* stored variables.
C3_Witness ==
  /\ last.op = "init" /\ last.ninit = "fail" /\ last.res = "InitError"
  /\ Before(last.calls, "End", "Init3")
  /\ DOMAIN cfg[last.m].variables # {}
  /\ cfg[last.m].datapath = EmptyStr

\* C4: between calls, when the snapshot's datapath is not empty, the engine's
\* value of every name in the snapshot's variables is the snapshot's value.
C4_SnapshotVariablesApplied ==
  \A m \in Mgrs :
    (Quiet(m) /\ Sound(m) /\ handle[m] # NULL /\ cfg[m].datapath # EmptyStr)
    => \A n \in DOMAIN cfg[m].variables :
         n \in KnownParams /\ NativeValue(m, n) = cfg[m].variables[n]

\* C5: between calls, when the snapshot's datapath is not empty, the latest
\* successful native initialisation used the snapshot's (datapath, language).
C5_SnapshotIsLastInit ==
  \A m \in Mgrs :
    (Quiet(m) /\ Sound(m) /\ handle[m] # NULL /\ cfg[m].datapath # EmptyStr)
    => nat[handle[m]].inited = <<cfg[m].datapath, cfg[m].language>>

\* C6: two live managers never hold the same native object, and a set_variable,
\* init or end on one manager leaves every other live manager's snapshot, handle
\* and native object as they were.
C6_CloneIndependence ==
  [][/\ \A m1, m2 \in Mgrs :
          (m1 # m2 /\ alive'[m1] = "live" /\ alive'[m2] = "live" /\ handle'[m1] # NULL)
          => handle'[m1] # handle'[m2]
     /\ \A t \in Threads :
          (pc[t].op \in {"init", "set_variable", "end"} /\ pc'[t] # pc[t])
          => \A m2 \in Mgrs \ {pc[t].m} :
               alive[m2] = "live"
               => /\ cfg'[m2] = cfg[m2]
                  /\ handle'[m2] = handle[m2]
                  /\ handle[m2] # NULL => nat'[handle[m2]] = nat[handle[m2]]]_vars

\* C6 happens: a call on the clone has changed the clone while the initialised
\* source is live.
C6_Witness ==
  /\ last.op \in {"init", "set_variable", "end"} /\ last.res = "Ok" /\ last.m = 2
  /\ alive[1] = "live" /\ alive[2] = "live"
  /\ handle[1] # NULL /\ handle[2] # NULL
  /\ cfg[1].datapath # EmptyStr
  /\ cfg[2] # cfg[1]

\* C7: when clone returns, the clone's snapshot is the source's snapshot as
\* clone copied it.
C7_CloneEquivalence ==
  [][\A t \in Threads :
       (/\ pc[t].op = "clone" /\ pc[t].stage \in {"build", "replay"}
        /\ handle[pc[t].m] # NULL /\ Returned /\ last'.res = "Ok")
       => cfg'[last'.nm] = pc[t].snap]_vars

\* C8: the native object of a dropped manager has been deleted exactly once.
C8_NoNativeLeak ==
  \A m \in Mgrs :
    (alive[m] = "dropped" /\ handle[m] # NULL)
    => nat[handle[m]].st = "deleted" /\ nat[handle[m]].dels = 1

\* C9: the drop of a manager with a non-null handle issues TessBaseAPIEnd and
\* then TessBaseAPIDelete, once each; the drop of a manager with a null handle
\* issues no native call and does not panic.
C9_TeardownOrder ==
  last.op = "drop"
  => IF handle[last.m] # NULL
     THEN last.calls = <<"End", "Delete">>
     ELSE last.calls = << >> /\ last.res # "Panic"

\* C10: at most one thread is inside the native calls on a manager's object, and
\* a thread that is holds the manager's handle mutex.
C10_MutualExclusion ==
  \A m \in Mgrs :
    /\ \A t1, t2 \in Threads : (InNative(t1, m) /\ InNative(t2, m)) => t1 = t2
    /\ \A t \in Threads : InNative(t, m) => hOwner[m] = t

\* C10 happens: one thread is inside a native call while another waits for the
\* same handle mutex.
C10_Witness ==
  \E m \in Mgrs : \E t1, t2 \in Threads :
    t1 # t2 /\ InNative(t1, m) /\ pc[t2].stage = "handle" /\ pc[t2].m = m

\* C11: a thread that takes the configuration lock of a manager does not hold
\* that manager's handle lock: where both are held, the configuration lock was
\* taken first.
C11_LockOrder ==
  [][\A t \in Threads : \A m \in Mgrs :
       (cOwner'[m] = t /\ cOwner[m] # t) => hOwner[m] # t]_vars

\* The locks a call takes on its manager that are poisoned.
NeedsPoisoned(op, m) ==
  IF op = "clone" THEN cPoison[m]
  ELSE IF op \in {"init", "set_variable"} THEN cPoison[m] \/ hPoison[m]
  ELSE hPoison[m]

\* C13: a call that reaches a poisoned lock of its manager returns
\* MutexLockError, has issued no native call and has not panicked.
C13_PoisonReported ==
  [][(/\ Returned
      /\ last'.op \in {"init", "set_variable", "end", "init_2", "recognize", "clone"}
      /\ ~(last'.op = "init_2" /\ (CStringNewFails(last'.a1) \/ CStringNewFails(last'.a2)))
      /\ NeedsPoisoned(last'.op, last'.m))
     => last'.res = "MutexLockError" /\ last'.calls = << >>]_vars

\* C14: an init call whose arguments convert to C strings returns Ok, InitError
\* or MutexLockError; it returns Ok when the native initialiser reported
\* success and InitError when it reported failure.
C14_InitOutcomes ==
  (/\ last.op = "init" /\ handle[last.m] # NULL
   /\ ~(CStringNewFails(last.a1) \/ CStringNewFails(last.a2)))
  => /\ last.res \in {"Ok", "InitError", "MutexLockError"}
     /\ last.ninit = "ok" => last.res = "Ok"
     /\ last.ninit = "fail" => last.res = "InitError"

\* The elements of a terminated array that precede its first terminator.
FirstSentinel(arr) ==
  CHOOSE k \in 1..Len(arr) : arr[k] = Sentinel /\ \A j \in 1..(k - 1) : arr[j] # Sentinel

BeforeSentinel(arr) == SubSeq(arr, 1, FirstSentinel(arr) - 1)

\* The call that releases a buffer or cursor of each kind.
DeleteOf(kind) ==
  CASE kind = "text" -> "TessDeleteText"
    [] kind = "ints" -> "TessDeleteIntArray"
    [] kind = "strs" -> "TessDeleteTextArray"
    [] kind = "page" -> "TessPageIteratorDelete"
    [] kind = "result" -> "TessResultIteratorDelete"

ReleasedOnce(a) == a.frees = 1 /\ a.by = DeleteOf(a.kind)

\* C17: get_word_confidences and all_word_confidences, handed a non-null array,
\* return the elements before its first -1, in order and without the -1; every
\* confidence array handed out has been released once, by TessDeleteIntArray,
\* and the copy was taken while the array was allocated.
C17_SentinelCopy ==
  /\ \A i \in DOMAIN heap : heap[i].kind = "ints" => ReleasedOnce(heap[i])
  /\ (last.op \in {"get_word_confidences", "all_word_confidences"}
      /\ Count(last.calls, "DeleteIntArray") > 0)
     => /\ last.res = "Ok"
        /\ heap[Len(heap)].kind = "ints"
        /\ out = BeforeSentinel(heap[Len(heap)].data)
        /\ \A i \in DOMAIN out : out[i] # Sentinel
        /\ last.calls = <<"AllWordConfidences", "DeleteIntArray">>
  /\ (last.op \in {"get_word_confidences", "all_word_confidences"} /\ last.res # "Ok")
     => Count(last.calls, "DeleteIntArray") = 0

\* C17 happens: an array with memory behind its terminator was copied.
C17_Witness ==
  /\ last.op = "get_word_confidences" /\ last.res = "Ok" /\ handle[last.m] # NULL
  /\ heap[Len(heap)].data = <<0, -1, 7, -1>>
  /\ out = <<0>>
  /\ \E i \in DOMAIN heap : heap[i].data = <<88, 91, -1>>

\* C18: a get_iterators call that went on to request the cursors returns Ok with
\* both cursors, unreleased and wrapped, or NullPointerError; every cursor that
\* was not returned has been released once, through the delete call of its kind.
C18_CursorsNotLeaked ==
  /\ \A i \in DOMAIN heap :
       heap[i].kind \in {"page", "result"}
       => IF heap[i].kept THEN heap[i].frees = 0 ELSE ReleasedOnce(heap[i])
  /\ (last.op = "get_iterators" /\ Count(last.calls, "AnalyseLayout") > 0)
     => IF last.res = "Ok"
        THEN /\ Len(out) = 2
             /\ heap[out[1]].kind = "page" /\ heap[out[1]].kept
             /\ heap[out[2]].kind = "result" /\ heap[out[2]].kept
             /\ Count(last.calls, "PageIteratorDelete") = 0
             /\ Count(last.calls, "ResultIteratorDelete") = 0
        ELSE /\ last.res = "NullPointerError"
             /\ out = << >>
             /\ Count(last.calls, "PageIteratorDelete") <= 1
             /\ Count(last.calls, "ResultIteratorDelete") <= 1

\* C18 happens: the layout cursor was obtained, the result cursor was not, and
\* an earlier call had returned both.
C18_Witness ==
  /\ last.op = "get_iterators" /\ last.res = "NullPointerError" /\ handle[last.m] # NULL
  /\ Count(last.calls, "PageIteratorDelete") = 1
  /\ Count(last.calls, "ResultIteratorDelete") = 0
  /\ \E i \in DOMAIN heap : heap[i].kept

\* C20: every text, confidence array and string vector the engine handed out has
\* been released once, through the call that matches it, when the operation that
\* obtained it has returned.
C20_BuffersReleased ==
  \A i \in DOMAIN heap :
    heap[i].kind \in {"text", "ints", "strs"} => ReleasedOnce(heap[i])

\* C19: while a get_iterators call is between its recognition and its request
\* of the cursors, no step changes the native object of its manager.
C19_IteratorsAtomic ==
  [][\A t \in Threads :
       (/\ pc[t].op = "get_iterators" /\ pc[t].stage = "relock"
        /\ pc'[t].op = "get_iterators" /\ handle[pc[t].m] # NULL)
       => nat'[handle[pc[t].m]] = nat[handle[pc[t].m]]]_vars

\* The lock a thread is about to take is not one it holds.
NoSelfLock ==
  \A t \in Threads :
    /\ pc[t].stage = "config" => cOwner[pc[t].m] # t
    /\ pc[t].stage \in {"handle", "relock"} => hOwner[pc[t].m] # t
    /\ pc[t].stage = "replay_handle" => hOwner[CloneOf] # t
    /\ pc[t].stage = "replay_config" => cOwner[CloneOf] # t

\* C12: no thread waits for a lock it holds, and with native calls that return
\* and fair locks every call that was started completes (or the process has
\* ended).
C12_DeadlockFree ==
  /\ []NoSelfLock
  /\ \A t \in Threads : (pc[t].op # "idle") ~> (pc[t].op = "idle" \/ aborted)

\* C12 happens: two threads are inside calls on one manager, one holding the
\* handle lock the other waits for, after a clone.
C12_Witness ==
  \E t1, t2 \in Threads :
    /\ t1 # t2 /\ pc[t1].m = pc[t2].m
    /\ hOwner[pc[t1].m] = t1 /\ cOwner[pc[t1].m] = t1
    /\ pc[t2].stage \in {"handle", "relock"}
    /\ \E m \in Mgrs : m # pc[t1].m /\ alive[m] = "live"

\* C15: a set_image call that issued the native call had width, height and
\* bytes_per_pixel above 0, bytes_per_line at least the exact product
\* width * bytes_per_pixel, and a buffer at least the exact product
\* height * bytes_per_line long.
C15_ImageGuard ==
  (last.op = "set_image" /\ Count(last.calls, "SetImage") > 0 /\ handle[last.m] # NULL)
  => LET len == last.a1[1]
         width == last.a1[2]
         height == last.a1[3]
         bytes_per_pixel == last.a1[4]
         bytes_per_line == last.a1[5]
     IN /\ width > 0 /\ height > 0 /\ bytes_per_pixel > 0
        /\ bytes_per_line >= width * bytes_per_pixel
        /\ len >= height * bytes_per_line

\* C16: set_image returns InvalidDimensions when width <= 0 or height <= 0,
\* otherwise InvalidBytesPerPixel when bytes_per_pixel <= 0, otherwise
\* InvalidBytesPerLine when bytes_per_line < width * bytes_per_pixel, otherwise
\* InvalidImageData when the buffer is shorter than height * bytes_per_line;
\* and each of them with no native call.
C16_ImageErrors ==
  last.op = "set_image"
  => LET len == last.a1[1]
         width == last.a1[2]
         height == last.a1[3]
         bytes_per_pixel == last.a1[4]
         bytes_per_line == last.a1[5]
         expected ==
           IF width <= 0 \/ height <= 0 THEN "InvalidDimensions"
           ELSE IF bytes_per_pixel <= 0 THEN "InvalidBytesPerPixel"
           ELSE IF bytes_per_line < width * bytes_per_pixel THEN "InvalidBytesPerLine"
           ELSE IF len < height * bytes_per_line THEN "InvalidImageData"
           ELSE "pass"
     IN IF expected = "pass"
        THEN last.res \in {"Ok", "MutexLockError"}
        ELSE last.res = expected /\ last.calls = << >>

\* C21: a call that was handed a null pointer by the engine does not return Ok.
C21_NoSilentDefault ==
  (/\ last.op \in {"get_init_languages_as_string", "detect_os", "get_available_languages",
                   "get_word_confidences"}
   /\ handle[last.m] # NULL /\ nullPtr)
  => last.res # "Ok"

\* C22: when an init call returned Ok and the next call to return on that
\* manager is an init call with the same datapath and language, the second call
\* has issued no TessBaseAPIEnd, and the first has issued at most one.
C22_NoSecondEnd ==
  [][(/\ Returned
      /\ last.op = "init" /\ last.res = "Ok"
      /\ last'.op = "init" /\ last'.m = last.m
      /\ last'.a1 = last.a1 /\ last'.a2 = last.a2)
     => /\ Count(last'.calls, "End") = 0
        /\ Count(last.calls, "End") <= 1]_vars

\* C22 happens: the same thread is in a second init call with the arguments of
\* the first, which returned Ok with a datapath that is not empty, and has
\* passed the test of config_changed without a native call.
C22_Witness ==
  \E t \in Threads :
    /\ pc[t].op = "init" /\ pc[t].stage = "entered" /\ pc[t].calls = << >>
    /\ last.op = "init" /\ last.res = "Ok" /\ last.t = t /\ last.m = pc[t].m
    /\ last.a1 = pc[t].a1 /\ last.a2 = pc[t].a2 /\ last.a1 # EmptyStr
    /\ handle[pc[t].m] # NULL

\* C23: an init call whose datapath and language equal the snapshot's, the
\* datapath not empty, issues no native call and leaves the snapshot and the
\* native object as they were.
C23_RedundantInitNoOp ==
  [][(/\ Returned
      /\ last'.op = "init" /\ handle[last'.m] # NULL
      /\ cfg[last'.m].datapath # EmptyStr
      /\ cfg[last'.m].datapath = last'.a1 /\ cfg[last'.m].language = last'.a2)
     => /\ last'.calls = << >>
        /\ cfg'[last'.m] = cfg[last'.m]
        /\ nat'[handle[last'.m]] = nat[handle[last'.m]]]_vars

\* C26: an init call that runs the native initialiser finds the native object
\* not initialised, or has issued TessBaseAPIEnd before it.
C26_NoInitOverLiveSession ==
  [][(/\ Returned
      /\ last'.op = "init" /\ handle[last'.m] # NULL
      /\ last'.ninit # "none")
     => \/ nat[handle[last'.m]].st # "initialized"
        \/ Before(last'.calls, "End", "Init3")]_vars

\* C29: a thread that holds both locks of a manager is inside init.
C29_OnlyInitTakesBoth ==
  \A t \in Threads : \A m \in Mgrs :
    (hOwner[m] = t /\ cOwner[m] = t) => pc[t].op = "init"

\* C30: an init call with a datapath that is not empty that took both locks and
\* returned an error has left the snapshot's datapath and language empty.
C30_FailedInitUninitialized ==
  (last.op = "init" /\ last.a1 # EmptyStr /\ last.res \in {"InitError", "SetVariableError"})
  => cfg[last.m].datapath = EmptyStr /\ cfg[last.m].language = EmptyStr

\* C24: an end call that returns has held the handle lock for its one native
\* call, TessBaseAPIEnd, and returns Ok, whatever the state of the manager; it
\* has not deleted the native object and has left every snapshot as it was.  On
\* a poisoned handle lock it returns MutexLockError with no native call.
C24_EndLeavesConfiguration ==
  [][(Returned /\ last'.op = "end")
     => /\ cfg' = cfg
        /\ Count(last'.calls, "Delete") = 0
        /\ IF hPoison[last'.m]
           THEN last'.res = "MutexLockError" /\ last'.calls = << >>
           ELSE /\ last'.res = "Ok" /\ last'.calls = <<"End">>
                /\ hOwner[last'.m] = last'.t
                /\ cOwner[last'.m] # last'.t
                /\ handle[last'.m] # NULL
                   => /\ nat'[handle[last'.m]].st = "ended"
                      /\ nat'[handle[last'.m]].dels = 0]_vars

\* C24 happens: end has returned Ok, as the last of several calls, on a manager
\* that was initialised; the session is ended and the snapshot still holds the
\* datapath and language.
C24_Witness ==
  /\ last.op = "end" /\ last.res = "Ok" /\ last.seq = MaxOps
  /\ handle[last.m] # NULL /\ nat[handle[last.m]].st = "ended"
  /\ nat[handle[last.m]].inited # NoInit
  /\ cfg[last.m].datapath # EmptyStr /\ cfg[last.m].language # EmptyStr

\* C25: while the process runs, the snapshot of every manager holds, for each
\* name given to a set_variable call that took the locks, the value of the
\* latest such call; and such a call, whether or not the snapshot is
\* initialised, inserts its entry and leaves the others, hands the pair to
\* TessBaseAPISetVariable when it converts to C strings, and returns Ok exactly
\* when the engine knows the name.
C25_LastWriteWins ==
  /\ [](~aborted =>
         \A m \in Mgrs : \A n \in DOMAIN lastSet[m] :
           n \in DOMAIN cfg[m].variables /\ cfg[m].variables[n] = lastSet[m][n])
  /\ [][(Returned /\ last'.op = "set_variable" /\ last'.res # "MutexLockError")
        => /\ DOMAIN cfg'[last'.m].variables = DOMAIN cfg[last'.m].variables \cup {last'.a1}
           /\ cfg'[last'.m].variables[last'.a1] = last'.a2
           /\ \A n \in DOMAIN cfg[last'.m].variables \ {last'.a1} :
                cfg'[last'.m].variables[n] = cfg[last'.m].variables[n]
           /\ ~(CStringNewFails(last'.a1) \/ CStringNewFails(last'.a2))
              => /\ last'.calls = <<"SetVariable">>
                 /\ last'.res = "Ok" <=> last'.a1 \in KnownParams
                 /\ (last'.a1 \in KnownParams /\ handle[last'.m] # NULL)
                    => nat'[handle[last'.m]].vars[last'.a1] = last'.a2]_vars

\* C25 happens: on a snapshot that is not initialised, a third set_variable call
\* has returned Ok, the engine holds its value, and the snapshot holds it next
\* to the entry of another name.
C25_Witness ==
  /\ last.op = "set_variable" /\ last.res = "Ok" /\ last.seq >= 3
  /\ last.a1 = NameK /\ last.a2 = Val2
  /\ handle[last.m] # NULL /\ cfg[last.m].datapath = EmptyStr
  /\ DOMAIN cfg[last.m].variables = {NameK, NameX}
  /\ cfg[last.m].variables[NameK] = Val2
  /\ nat[handle[last.m]].vars[NameK] = Val2

\* C27: while a thread holds the configuration lock of a manager inside init or
\* set_variable, an init or set_variable call of another thread on that manager
\* has not got past its own request for the lock; and when no call on the
\* manager is in progress and the latest to return was an init or set_variable
\* call that returned Ok, the snapshot and the engine hold the value of the
\* latest set_variable call (for the name of that call, and after init for
\* every name set).
C27_RaceSerialized ==
  /\ \A t1, t2 \in Threads : \A m \in Mgrs :
       (/\ t1 # t2 /\ cOwner[m] = t1 /\ pc[t1].op \in {"init", "set_variable"}
        /\ pc[t2].op \in {"init", "set_variable"} /\ pc[t2].m = m)
       => pc[t2].stage = "config"
  /\ (/\ last.op \in {"init", "set_variable"} /\ last.res = "Ok"
      /\ ~aborted /\ handle[last.m] # NULL /\ Quiet(last.m))
     => \A n \in (IF last.op = "set_variable" THEN {last.a1} ELSE DOMAIN lastSet[last.m]) :
          /\ n \in DOMAIN cfg[last.m].variables
          /\ cfg[last.m].variables[n] = lastSet[last.m][n]
          /\ NativeValue(last.m, n) = lastSet[last.m][n]

\* C27 happens: init took the configuration lock first and is between its native
\* calls while a set_variable call of another thread waits for that lock.
C27_Witness ==
  \E t1, t2 \in Threads :
    /\ t1 # t2 /\ InInit(t1) /\ handle[pc[t1].m] # NULL
    /\ pc[t2].op = "set_variable" /\ pc[t2].m = pc[t1].m /\ pc[t2].stage = "config"

\* C28: while a thread is inside init between two of its native calls, no other
\* thread takes a step of a call on that manager, other than starting one or
\* building a clone from a snapshot it copied before; and no step but init's own
\* changes the manager's snapshot or native object.
C28_InitAtomic ==
  [][\A t \in Threads :
       InInit(t)
       => /\ \A t2 \in Threads \ {t} :
               pc'[t2] # pc[t2]
               => \/ pc[t2].op = "idle"
                  \/ pc[t2].m # pc[t].m
                  \/ pc[t2].op = "clone" /\ pc[t2].stage # "config"
          /\ pc'[t] = pc[t]
             => /\ cfg'[pc[t].m] = cfg[pc[t].m]
                /\ handle[pc[t].m] # NULL
                   => nat'[handle[pc[t].m]] = nat[handle[pc[t].m]]]_vars

\* C28 happens: init has issued TessBaseAPIEnd and written the snapshot, the
\* native initialiser has not run, and a clone of another thread waits to copy
\* the snapshot.
C28_Witness ==
  \E t, t2 \in Threads :
    /\ t # t2 /\ pc[t].op = "init" /\ pc[t].stage = "entered"
    /\ Count(pc[t].calls, "End") = 1 /\ handle[pc[t].m] # NULL
    /\ pc[t2].op = "clone" /\ pc[t2].m = pc[t].m /\ pc[t2].stage = "config"

\* C31: a set_variable call that returns SetVariableError leaves the snapshot's
\* variables as they were before the call, and no init call returns
\* SetVariableError from replaying a stored pair.
C31_RejectedNotRetained ==
  /\ [][(/\ Returned
         /\ last'.op = "set_variable" /\ last'.res = "SetVariableError"
         /\ handle[last'.m] # NULL)
        => cfg'[last'.m].variables = cfg[last'.m].variables]_vars
  /\ [](last.op = "init" => last.res # "SetVariableError")

\* C32: an init call that returns Ok on a manager whose session was initialised
\* and then ended, with the snapshot's datapath and language or with others,
\* has issued TessBaseAPIInit3 once and TessBaseAPISetVariable once for every
\* stored variable; the native object is then initialised with the requested
\* datapath and language, holds every stored value, and the snapshot holds the
\* requested datapath and language.
C32_ReuseAfterEnd ==
  [][(/\ Returned
      /\ last'.op = "init" /\ last'.res = "Ok" /\ handle[last'.m] # NULL
      /\ nat[handle[last'.m]].st = "ended" /\ nat[handle[last'.m]].inited # NoInit)
     => LET m == last'.m
            o == nat'[handle[m]]
        IN /\ Count(last'.calls, "Init3") = 1
           /\ Count(last'.calls, "SetVariable") = Cardinality(DOMAIN cfg[m].variables)
           /\ cfg'[m].variables = cfg[m].variables
           /\ o.st = "initialized" /\ o.inited = <<last'.a1, last'.a2>>
           /\ \A n \in DOMAIN cfg[m].variables : o.vars[n] = cfg[m].variables[n]
           /\ cfg'[m].datapath = last'.a1 /\ cfg'[m].language = last'.a2]_vars

\* C32 happens: the only call made on the ended manager is an init with the
\* datapath and language the snapshot kept; it returned Ok, ran the initialiser
\* without a second TessBaseAPIEnd and replayed the stored variable.
C32_Witness ==
  /\ ops = 1 /\ last.seq = 1 /\ pc[1].op = "idle"
  /\ last.op = "init" /\ last.res = "Ok"
  /\ last.a1 = PathP /\ last.a2 = LangEng
  /\ last.calls = <<"Init3", "SetVariable">>
  /\ nat[handle[1]].st = "initialized"
  /\ nat[handle[1]].vars[NameK] = Val1

\* C32 happens also with another language: the init ends the session once more
\* before it initialises.
ReuseOtherLanguage ==
  /\ ops = 1 /\ last.seq = 1 /\ pc[1].op = "idle"
  /\ last.op = "init" /\ last.res = "Ok"
  /\ last.a1 = PathP /\ last.a2 = LangFra
  /\ last.calls = <<"End", "Init3", "SetVariable">>
  /\ nat[handle[1]].inited = <<PathP, LangFra>>

\* The cursors derived from object o that a caller holds and has not let go.
LiveCursorsOf(o) ==
  {k \in DOMAIN heap : /\ heap[k].kind \in {"page", "result"} /\ heap[k].kept
                       /\ heap[k].frees = 0 /\ heap[k].data = <<o>>}

\* The calls that reinitialise, end or delete a native object.
Invalidates(calls) ==
  \E i \in DOMAIN calls : calls[i] \in {"Init3", "Init2", "End", "Delete"}

\* C33: no call reinitialises, ends or deletes a native object while a cursor
\* derived from it is held and not yet released.
C33_CursorsWithinParent ==
  [][\A o \in Objects :
       (/\ LiveCursorsOf(o) # {}
        /\ Returned /\ handle[last'.m] = o /\ Invalidates(last'.calls))
       => \A k \in LiveCursorsOf(o) : heap'[k].frees > 0]_vars

\* C36: a cursor a getter has just returned as a PageIterator refers to a layout
\* cursor of the engine, and one returned as a ResultIterator to a result
\* cursor; every cursor that has been released was released by the delete call
\* of its own kind.
C36_CursorKindsNotMixed ==
  /\ (last.op \in CursorOps /\ last.res = "Ok")
     => heap[out[1].ptr].kind = IF out[1].wrapper = "PageIterator" THEN "page" ELSE "result"
  /\ \A k \in DOMAIN heap :
       (heap[k].kind \in {"page", "result"} /\ heap[k].frees > 0)
       => heap[k].by = DeleteOf(heap[k].kind)

\* C34: the manager new() returns has an empty datapath, an empty language and
\* no variables, and no operation hands a null handle to a native function.
C34_NoNativeCallOnNull ==
  /\ last.op = "new" => cfg[last.nm] = NewConfiguration
  /\ ~nullDeref

\* C35: set_debug_variable and print_variables_to_file return Ok when their
\* native call returned 1 and their named error otherwise; detect_os returns
\* OcrError when its native call returned anything but 1, and Ok only when it
\* returned 1 (a script name that is not UTF-8 is an error of its own); init_1,
\* init_2, init_4, init_5 and recognize return Ok when theirs returned 0 and
\* their named error otherwise; set_variable returns Ok when the engine accepts
\* the name and SetVariableError otherwise; init returns Ok when the native
\* initialiser succeeded and InitError when it failed.
C35_StatusConvention ==
  /\ (last.op \in {"set_debug_variable", "print_variables_to_file"} /\ last.calls # << >> /\ handle[last.m] # NULL)
     => last.res = IF out[1] = 1 THEN "Ok"
                   ELSE IF last.op = "set_debug_variable" THEN "SetVariableError"
                   ELSE "IoError"
  /\ (last.op = "detect_os" /\ last.calls # << >> /\ handle[last.m] # NULL)
     => /\ last.res = "OcrError" <=> out[1] # 1
        /\ last.res = "Ok" => out[1] = 1
  /\ (last.op \in InitOps /\ last.calls # << >> /\ handle[last.m] # NULL)
     => last.res = IF out[1] = 0 THEN "Ok"
                   ELSE IF last.op = "recognize" THEN "OcrError" ELSE "InitError"
  /\ (last.op = "set_variable" /\ last.calls # << >> /\ handle[last.m] # NULL)
     => last.res = IF TessBaseAPISetVariableRet(last.a1) = 1 THEN "Ok" ELSE "SetVariableError"
  /\ (last.op = "init" /\ last.ninit # "none" /\ handle[last.m] # NULL)
     => last.res = IF last.ninit = "ok" THEN "Ok" ELSE "InitError"
====
